---------------------------- MODULE Spec2Model ----------------------------
(***************************************************************************)
(* The Intcode virtual machine of intcode/src/lib.rs (IntcodeProcess).    *)
(*                                                                         *)
(* A Vec<isize> is a sequence; the cell at address a is memory[a + 1].     *)
(* instruction_counter is a usize in the source; the model holds the       *)
(* value of `instruction_counter as isize`, the form in which step()       *)
(* uses it for the fetch; a jump stores `val1 as usize` (as_usize) and the *)
(* model holds what that usize reads back as (as_isize).                   *)
(* Every value the bounded programs produce stays far below the 64-bit     *)
(* width, so isize arithmetic is exact here; the programs on values beyond *)
(* 32 bits run on words held as their eight bytes (step_wide).             *)
(***************************************************************************)
EXTENDS Integers, Sequences, FiniteSets, TLC

VARIABLES
    memory,               \* IntcodeProcess.memory
    instruction_counter,  \* IntcodeProcess.instruction_counter
    relative_base,        \* IntcodeProcess.relative_base
    inputs,               \* IntcodeProcess.inputs (front = head)
    outputs,              \* IntcodeProcess.outputs
    last,                 \* the last call: operation, arguments, state before, result
    program,              \* the program the process was created from
    fed,                  \* every value passed to add_input, in call order
    taken,                \* the values the executed Input instructions stored
    returned,             \* the values returned by successful run_to_output calls
    drivers,              \* the execution calls made so far
    origin,               \* the process as initialised, before the first execution call
    stores,               \* number of caller-side store calls
    steps,                \* number of instructions fetched so far
    retry,                \* a driver call repeated after NoInputAvailable and add_input
    halted,               \* execution calls that returned CatchFire (counted up to 2)
    heap,                 \* the Vec<isize> buffers of day-07's amplifiers, by buffer
    processes,            \* day-07's process_a, process_b: each owns a buffer
    acted,                \* the last call on an amplifier and the state before it
    feedback,             \* run_thrust_amplifiers_feedback: its locals and where it is
    intcode               \* day-02's Intcode stepped beside the process, and its last step

vars == <<memory, instruction_counter, relative_base, inputs, outputs,
          last, program, fed, taken, returned, drivers, origin, stores, steps,
          retry, halted, heap, processes, acted, feedback, intcode>>

---------------------------------------------------------------------------
(* Bounds of the model *)

MaxSteps == 12
MaxInputs == 2
MaxStores == 1
MaxFar == 2
MaxOperand == 5
MaxMode == 3
MaxQuineSteps == 84
MaxCalls == 4

---------------------------------------------------------------------------
(* Results: Result<_, IntcodeError> *)

Ok(x) == [t |-> "Ok", v |-> x]
OkNone == [t |-> "OkNone", v |-> 0]
OkSome(x) == [t |-> "OkSome", v |-> x]
(* UnknownInstruction that carries the opcode digits alone *)
UnknownInstruction_opcode(x) ==
    [t |-> "UnknownInstruction", v |-> x - 100 * (IF x >= 0 THEN x \div 100 ELSE -((-x) \div 100))]

UnknownInstruction(x) == [t |-> "UnknownInstruction", v |-> x]
CatchFire == [t |-> "CatchFire", v |-> 0]
Segfault(a) == [t |-> "Segfault", v |-> a]
NoInputAvailable == [t |-> "NoInputAvailable", v |-> 0]
Running == [t |-> "Running", v |-> 0]

IsOk(r) == r.t \in {"Ok", "OkNone", "OkSome"}
Errors == {"UnknownInstruction", "CatchFire", "Segfault", "NoInputAvailable"}

(* Rust's / and % on isize truncate toward zero *)
rust_div(a, b) == IF a >= 0 THEN a \div b ELSE -((-a) \div b)
rust_rem(a, b) == a - b * rust_div(a, b)

pow10(n) == IF n = 2 THEN 100 ELSE IF n = 3 THEN 1000 ELSE 10000

---------------------------------------------------------------------------
(* Instruction::decode *)

NoMode == "None"

(* decode_input_mode that reads every unrecognised digit as position mode *)
decode_input_mode_lenient(instruction, position) ==
    LET value == rust_rem(rust_div(instruction, pow10(position)), 10)
    IN  CASE value = 1 -> [ok |-> TRUE, mode |-> "Immediate"]
          [] value = 2 -> [ok |-> TRUE, mode |-> "Relative"]
          [] OTHER -> [ok |-> TRUE, mode |-> "Position"]

decode_input_mode(instruction, position) ==
    LET value == rust_rem(rust_div(instruction, pow10(position)), 10)
    IN  CASE value = 0 -> [ok |-> TRUE, mode |-> "Position"]
          [] value = 1 -> [ok |-> TRUE, mode |-> "Immediate"]
          [] value = 2 -> [ok |-> TRUE, mode |-> "Relative"]
          [] OTHER -> [ok |-> FALSE, mode |-> NoMode]

decode_output_mode(instruction, position) ==
    LET value == rust_rem(rust_div(instruction, pow10(position)), 10)
    IN  CASE value = 0 -> [ok |-> TRUE, mode |-> "Position"]
          [] value = 2 -> [ok |-> TRUE, mode |-> "Relative"]
          [] OTHER -> [ok |-> FALSE, mode |-> NoMode]

Instr(op, a, b, c) ==
    [ok |-> a.ok /\ b.ok /\ c.ok, op |-> op,
     in0 |-> a.mode, in1 |-> b.mode, out |-> c.mode]

Unused == [ok |-> TRUE, mode |-> NoMode]

decode(instruction) ==
    LET code == rust_rem(instruction, 100)
        i2 == decode_input_mode(instruction, 2)
        i3 == decode_input_mode(instruction, 3)
        o2 == decode_output_mode(instruction, 2)
        o4 == decode_output_mode(instruction, 4)
    IN  CASE code = 1 -> Instr("Add", i2, i3, o4)
          [] code = 2 -> Instr("Mul", i2, i3, o4)
          [] code = 3 -> Instr("Input", Unused, Unused, o2)
          [] code = 4 -> Instr("Output", i2, Unused, Unused)
          [] code = 5 -> Instr("JumpIfTrue", i2, i3, Unused)
          [] code = 6 -> Instr("JumpIfFalse", i2, i3, Unused)
          [] code = 7 -> Instr("LessThan", i2, i3, o4)
          [] code = 8 -> Instr("Equals", i2, i3, o4)
          [] code = 9 -> Instr("RelativeMode", i2, Unused, Unused)
          [] code = 99 -> Instr("Halt", Unused, Unused, Unused)
          [] OTHER -> [ok |-> FALSE, op |-> "None",
                       in0 |-> NoMode, in1 |-> NoMode, out |-> NoMode]

---------------------------------------------------------------------------
(* The process as a value *)

Process(m, ic, rb, ins, outs) ==
    [memory |-> m, instruction_counter |-> ic, relative_base |-> rb,
     inputs |-> ins, outputs |-> outs]

from_vec(m) == Process(m, 0, 0, <<>>, <<>>)

self == Process(memory, instruction_counter, relative_base, inputs, outputs)

At(m, a) == m[a + 1]

resize(m, n) == m \o [i \in 1..(n - Len(m)) |-> 0]

(* A call's outcome: the process after it and the Result it returned *)
Ret(p, r) == [vm |-> p, t |-> r.t, v |-> r.v]

(* load that reads the tape as zero-filled beyond its end *)
load_zero_filling(p, address) ==
    IF address < 0 THEN Ret(p, Segfault(address))
    ELSE IF address >= Len(p.memory) THEN Ret(p, Ok(0))
    ELSE Ret(p, Ok(p.memory[address + 1]))

load(p, address) ==
    IF address < 0 THEN Ret(p, Segfault(address))
    ELSE IF address >= Len(p.memory) THEN Ret(p, Segfault(address))
    ELSE Ret(p, Ok(At(p.memory, address)))

(* load_with_resize that fails beyond the tape, as load does *)
load_without_resize(p, address) ==
    IF address < 0 THEN Ret(p, Segfault(address))
    ELSE IF address >= Len(p.memory) THEN Ret(p, Segfault(address))
    ELSE Ret(p, Ok(p.memory[address + 1]))

(* load_with_resize that resizes without looking at the length: a read       *)
(* inside the tape cuts it off after the cell read                           *)
load_with_resize_truncating(p, address) ==
    IF address < 0 THEN Ret(p, Segfault(address))
    ELSE LET m == IF address >= Len(p.memory)
                  THEN resize(p.memory, address + 1)
                  ELSE SubSeq(p.memory, 1, address + 1)
         IN  Ret([p EXCEPT !.memory = m], Ok(At(m, address)))

load_with_resize(p, address) ==
    IF address < 0 THEN Ret(p, Segfault(address))
    ELSE LET m == IF address >= Len(p.memory)
                  THEN resize(p.memory, address + 1) ELSE p.memory
         IN  Ret([p EXCEPT !.memory = m], Ok(At(m, address)))

(* store without the bounds checks of its own: the resizing store *)
store_resizing(p, address, value) ==
    IF address < 0 THEN Ret(p, Segfault(address))
    ELSE LET m == IF address >= Len(p.memory)
                  THEN p.memory \o [i \in 1..(address + 1 - Len(p.memory)) |-> 0]
                  ELSE p.memory
         IN  Ret([p EXCEPT !.memory = [m EXCEPT ![address + 1] = value]], Ok(0))

(* store that clamps a negative address to cell 0 *)
store_clamping(p, address, value) ==
    IF address < 0 THEN Ret([p EXCEPT !.memory[1] = value], Ok(0))
    ELSE IF address >= Len(p.memory) THEN Ret(p, Segfault(address))
    ELSE Ret([p EXCEPT !.memory[address + 1] = value], Ok(0))

(* store that checks the address and forgets the write *)
store_forgetting(p, address, value) ==
    IF address < 0 THEN Ret(p, Segfault(address))
    ELSE IF address >= Len(p.memory) THEN Ret(p, Segfault(address))
    ELSE Ret(p, Ok(0))

(* store that sets the cursor back to the start of the program *)
store_rewinding(p, address, value) ==
    IF address < 0 THEN Ret(p, Segfault(address))
    ELSE IF address >= Len(p.memory) THEN Ret(p, Segfault(address))
    ELSE Ret([p EXCEPT !.memory[address + 1] = value, !.instruction_counter = 0], Ok(0))

store(p, address, value) ==
    IF address < 0 THEN Ret(p, Segfault(address))
    ELSE IF address >= Len(p.memory) THEN Ret(p, Segfault(address))
    ELSE Ret([p EXCEPT !.memory[address + 1] = value], Ok(0))

(* store_with_resize that takes a negative address for cell 0 *)
store_with_resize_clamping(p, address, value) ==
    LET target == IF address < 0 THEN 0 ELSE address
        m == IF target >= Len(p.memory)
             THEN p.memory \o [i \in 1..(target + 1 - Len(p.memory)) |-> 0]
             ELSE p.memory
    IN  [vm |-> [p EXCEPT !.memory = [m EXCEPT ![target + 1] = value]],
         t |-> "Ok", v |-> 0]

store_with_resize(p, address, value) ==
    IF address < 0 THEN Ret(p, Segfault(address))
    ELSE LET m == IF address >= Len(p.memory)
                  THEN resize(p.memory, address + 1) ELSE p.memory
         IN  Ret([p EXCEPT !.memory = [m EXCEPT ![address + 1] = value]], Ok(0))

(* add_input that pushes at the front of the queue *)
add_input_front(p, value) == [p EXCEPT !.inputs = <<value>> \o @]

add_input(p, value) == [p EXCEPT !.inputs = Append(@, value)]

(* load_input that takes an immediate operand for an address *)
load_input_dereferencing(p, mode, parameter_location) ==
    LET parameter == load_with_resize(p, parameter_location)
    IN  IF ~IsOk(parameter) THEN parameter
        ELSE IF mode = "Relative"
             THEN load_with_resize(parameter.vm,
                                   parameter.v + parameter.vm.relative_base)
             ELSE load_with_resize(parameter.vm, parameter.v)

load_input(p, mode, parameter_location) ==
    LET parameter == load_with_resize(p, parameter_location)
    IN  IF ~IsOk(parameter) THEN parameter
        ELSE CASE mode = "Position" -> load_with_resize(parameter.vm, parameter.v)
               [] mode = "Immediate" -> parameter
               [] mode = "Relative" ->
                    load_with_resize(parameter.vm,
                                     parameter.v + parameter.vm.relative_base)

(* store_output that writes a relative parameter at its operand, without the *)
(* relative base                                                             *)
store_output_ignoring_base(p, mode, parameter_location, value) ==
    LET parameter == load_with_resize(p, parameter_location)
    IN  IF ~IsOk(parameter) THEN parameter
        ELSE store_with_resize(parameter.vm, parameter.v, value)

store_output(p, mode, parameter_location, value) ==
    LET parameter == load_with_resize(p, parameter_location)
    IN  IF ~IsOk(parameter) THEN parameter
        ELSE CASE mode = "Position" ->
                    store_with_resize(parameter.vm, parameter.v, value)
               [] mode = "Relative" ->
                    store_with_resize(parameter.vm,
                                      parameter.v + parameter.vm.relative_base, value)

(* A handler that leaves the cursor where it is *)
Advance_nowhere(p, n) == p

(* The cursor moved by the width of the widest instruction, whatever n *)
Advance_by_four(p, n) == [p EXCEPT !.instruction_counter = @ + 4]

Advance(p, n) == [p EXCEPT !.instruction_counter = @ + n]

---------------------------------------------------------------------------
(* isize at its width: a word as its bytes, least significant first, in      *)
(* two's complement.  The tests hold literals beyond 32 bits, so isize is    *)
(* 64 bits wide wherever they compile.                                       *)

IsizeBytes == 8

(* The bytes of column sums, each column passing its carry to the next; the  *)
(* carry out of the last column is dropped                                   *)
RECURSIVE Carried(_, _, _)
Carried(columns, k, carry) ==
    IF k > Len(columns) THEN <<>>
    ELSE <<(columns[k] + carry) % 256>>
            \o Carried(columns, k + 1, (columns[k] + carry) \div 256)

SignExtend(a, n) ==
    a \o [i \in 1..(n - Len(a)) |-> IF a[Len(a)] >= 128 THEN 255 ELSE 0]

Low(a, n) == SubSeq(a, 1, n)

(* A word of small magnitude (below 2^23) and its value *)
FromInt(x) ==
    LET u == IF x >= 0 THEN x ELSE x + 16777216
    IN  SignExtend(<<u % 256, (u \div 256) % 256, (u \div 65536) % 256>>, IsizeBytes)

IsSmall(a) == a = SignExtend(Low(a, 3), Len(a))

ToInt(a) ==
    a[1] + 256 * a[2] + 65536 * a[3] - (IF a[3] >= 128 THEN 16777216 ELSE 0)

(* `x as usize` and `u as isize` keep the bytes of the word: a usize is the  *)
(* unsigned reading of its bytes (never below 0), an isize the two's         *)
(* complement reading                                                        *)

(* A conversion to usize that takes a negative value to 0 *)
as_usize_saturating(x) == FromInt(IF x < 0 THEN 0 ELSE x)

as_usize(x) == FromInt(x)

as_isize(u) == ToInt(u)

(* A usize that no Vec can have for its length: isize::MAX is the most a Vec *)
(* can hold                                                                  *)
BeyondAnyTape(u) == u[IsizeBytes] >= 128

(* a * m + c for a byte-sized m and c *)
ScaleAdd(a, m, c) ==
    Carried([k \in 1..Len(a) |-> a[k] * m + (IF k = 1 THEN c ELSE 0)], 1, 0)

(* The word a decimal literal denotes *)
RECURSIVE FromDecimal(_)
FromDecimal(digits) ==
    IF digits = <<>> THEN [i \in 1..IsizeBytes |-> 0]
    ELSE ScaleAdd(FromDecimal(SubSeq(digits, 1, Len(digits) - 1)), 10,
                  digits[Len(digits)])

Negated(a) == ScaleAdd([k \in 1..Len(a) |-> 255 - a[k]], 1, 1)

(* The k-th column of the long multiplication of a by b *)
RECURSIVE Column(_, _, _, _)
Column(a, b, k, i) ==
    IF i > k THEN 0 ELSE a[i] * b[k + 1 - i] + Column(a, b, k, i + 1)

(* val0 * val1 kept to 32 bits *)
isize_mul_as_i32(a, b) ==
    SignExtend(Carried([k \in 1..4 |-> Column(a, b, k, 1)], 1, 0), IsizeBytes)

(* val0 * val1 and val0 + val1 as the release profile computes them: the     *)
(* low 64 bits                                                               *)
isize_mul(a, b) == Carried([k \in 1..IsizeBytes |-> Column(a, b, k, 1)], 1, 0)

isize_add(a, b) == Carried([k \in 1..IsizeBytes |-> a[k] + b[k]], 1, 0)

(* The product and the sum of two words as integers, on 128 bits *)
RECURSIVE ExactProduct(_, _, _)
ExactProduct(a, b, i) ==
    IF i = 0 THEN [k \in 1..(2 * IsizeBytes) |-> 0]
    ELSE LET wide == SignExtend(a, 2 * IsizeBytes)
             digit == SignExtend(b, 2 * IsizeBytes)[2 * IsizeBytes + 1 - i]
             shifted == <<0>> \o Low(ExactProduct(a, b, i - 1), 2 * IsizeBytes - 1)
             term == ScaleAdd(wide, digit, 0)
         IN  Carried([k \in 1..(2 * IsizeBytes) |-> shifted[k] + term[k]], 1, 0)

ExactSum(a, b) ==
    Carried([k \in 1..(2 * IsizeBytes) |->
                SignExtend(a, 2 * IsizeBytes)[k] + SignExtend(b, 2 * IsizeBytes)[k]], 1, 0)

(* An integer on 128 bits is the value of some isize *)
Fits(exact) == exact = SignExtend(Low(exact, IsizeBytes), 2 * IsizeBytes)

(* With overflow checks (the debug profile) an overflowing * or + panics *)
Panic == [t |-> "Panic", v |-> 0]

---------------------------------------------------------------------------
(* The opcode handlers *)

(* add that subtracts *)
add_subtracting(p, in0, in1, out) ==
    LET val0 == load_input(p, in0, p.instruction_counter + 1)
        val1 == load_input(val0.vm, in1, p.instruction_counter + 2)
        st == store_output(val1.vm, out, p.instruction_counter + 3, val0.v - val1.v)
    IN  IF ~IsOk(val0) THEN val0
        ELSE IF ~IsOk(val1) THEN val1
        ELSE IF ~IsOk(st) THEN st
        ELSE Ret(Advance(st.vm, 4), OkNone)

add(p, in0, in1, out) ==
    LET val0 == load_input(p, in0, p.instruction_counter + 1)
        val1 == load_input(val0.vm, in1, p.instruction_counter + 2)
        st == store_output(val1.vm, out, p.instruction_counter + 3, val0.v + val1.v)
    IN  IF ~IsOk(val0) THEN val0
        ELSE IF ~IsOk(val1) THEN val1
        ELSE IF ~IsOk(st) THEN st
        ELSE Ret(Advance(st.vm, 4), OkNone)

mul(p, in0, in1, out) ==
    LET val0 == load_input(p, in0, p.instruction_counter + 1)
        val1 == load_input(val0.vm, in1, p.instruction_counter + 2)
        st == store_output(val1.vm, out, p.instruction_counter + 3, val0.v * val1.v)
    IN  IF ~IsOk(val0) THEN val0
        ELSE IF ~IsOk(val1) THEN val1
        ELSE IF ~IsOk(st) THEN st
        ELSE Ret(Advance(st.vm, 4), OkNone)

(* input that restarts the program when it finds the queue empty *)
input_restarting(p, out) ==
    IF p.inputs = <<>>
    THEN [vm |-> [p EXCEPT !.instruction_counter = 0],
          t |-> "NoInputAvailable", v |-> 0]
    ELSE LET popped == [p EXCEPT !.inputs = Tail(@)]
             st == store_output(popped, out, p.instruction_counter + 1, Head(p.inputs))
         IN  IF ~IsOk(st) THEN st
             ELSE [vm |-> [st.vm EXCEPT !.instruction_counter = @ + 2],
                   t |-> "OkNone", v |-> 0]

(* input that moves the cursor on before it finds the queue empty *)
input_advancing(p, out) ==
    IF p.inputs = <<>>
    THEN [vm |-> [p EXCEPT !.instruction_counter = @ + 2],
          t |-> "NoInputAvailable", v |-> 0]
    ELSE LET popped == [p EXCEPT !.inputs = Tail(@)]
             st == store_output(popped, out, p.instruction_counter + 1, Head(p.inputs))
         IN  IF ~IsOk(st) THEN st
             ELSE [vm |-> [st.vm EXCEPT !.instruction_counter = @ + 2],
                   t |-> "OkNone", v |-> 0]

input(p, out) ==
    IF p.inputs = <<>> THEN Ret(p, NoInputAvailable)
    ELSE LET popped == [p EXCEPT !.inputs = Tail(@)]
             st == store_output(popped, out, p.instruction_counter + 1, Head(p.inputs))
         IN  IF ~IsOk(st) THEN st
             ELSE Ret(Advance(st.vm, 2), OkNone)

(* output that logs the value and does not report it *)
output_unreported(p, in0) ==
    LET val0 == load_input(p, in0, p.instruction_counter + 1)
    IN  IF ~IsOk(val0) THEN val0
        ELSE [vm |-> [val0.vm EXCEPT !.outputs = Append(@, val0.v),
                                     !.instruction_counter = @ + 2],
              t |-> "OkNone", v |-> 0]

(* output that keeps the last value alone in the log *)
output_replacing(p, in0) ==
    LET val0 == load_input(p, in0, p.instruction_counter + 1)
    IN  IF ~IsOk(val0) THEN val0
        ELSE [vm |-> [val0.vm EXCEPT !.outputs = <<val0.v>>,
                                     !.instruction_counter = @ + 2],
              t |-> "OkSome", v |-> val0.v]

output(p, in0) ==
    LET val0 == load_input(p, in0, p.instruction_counter + 1)
    IN  IF ~IsOk(val0) THEN val0
        ELSE Ret(Advance([val0.vm EXCEPT !.outputs = Append(@, val0.v)], 2),
                 OkSome(val0.v))

(* jump_if_true that jumps on zero *)
jump_if_true_inverted(p, in0, in1) ==
    LET val0 == load_input(p, in0, p.instruction_counter + 1)
        val1 == load_input(val0.vm, in1, p.instruction_counter + 2)
    IN  IF ~IsOk(val0) THEN val0
        ELSE IF ~IsOk(val1) THEN val1
        ELSE IF val0.v = 0
             THEN [vm |-> [val1.vm EXCEPT !.instruction_counter = val1.v],
                   t |-> "OkNone", v |-> 0]
             ELSE [vm |-> [val1.vm EXCEPT !.instruction_counter = @ + 3],
                   t |-> "OkNone", v |-> 0]

jump_if_true(p, in0, in1) ==
    LET val0 == load_input(p, in0, p.instruction_counter + 1)
        val1 == load_input(val0.vm, in1, p.instruction_counter + 2)
    IN  IF ~IsOk(val0) THEN val0
        ELSE IF ~IsOk(val1) THEN val1
        ELSE IF val0.v # 0
             THEN Ret([val1.vm EXCEPT !.instruction_counter = as_isize(as_usize(val1.v))],
                      OkNone)
             ELSE Ret(Advance(val1.vm, 3), OkNone)

(* jump_if_false that jumps on a non-zero value *)
jump_if_false_inverted(p, in0, in1) ==
    LET val0 == load_input(p, in0, p.instruction_counter + 1)
        val1 == load_input(val0.vm, in1, p.instruction_counter + 2)
    IN  IF ~IsOk(val0) THEN val0
        ELSE IF ~IsOk(val1) THEN val1
        ELSE IF val0.v # 0
             THEN [vm |-> [val1.vm EXCEPT !.instruction_counter = val1.v],
                   t |-> "OkNone", v |-> 0]
             ELSE [vm |-> [val1.vm EXCEPT !.instruction_counter = @ + 3],
                   t |-> "OkNone", v |-> 0]

jump_if_false(p, in0, in1) ==
    LET val0 == load_input(p, in0, p.instruction_counter + 1)
        val1 == load_input(val0.vm, in1, p.instruction_counter + 2)
    IN  IF ~IsOk(val0) THEN val0
        ELSE IF ~IsOk(val1) THEN val1
        ELSE IF val0.v = 0
             THEN Ret([val1.vm EXCEPT !.instruction_counter = as_isize(as_usize(val1.v))],
                      OkNone)
             ELSE Ret(Advance(val1.vm, 3), OkNone)

(* less_than that compares its operands as unsigned words: a negative one is *)
(* above every non-negative one                                              *)
less_than_unsigned(p, in0, in1, out) ==
    LET val0 == load_input(p, in0, p.instruction_counter + 1)
        val1 == load_input(val0.vm, in1, p.instruction_counter + 2)
        below == IF (val0.v < 0) = (val1.v < 0) THEN val0.v < val1.v ELSE val1.v < 0
        st == store_output(val1.vm, out, p.instruction_counter + 3,
                           IF below THEN 1 ELSE 0)
    IN  IF ~IsOk(val0) THEN val0
        ELSE IF ~IsOk(val1) THEN val1
        ELSE IF ~IsOk(st) THEN st
        ELSE [vm |-> [st.vm EXCEPT !.instruction_counter = @ + 4],
              t |-> "OkNone", v |-> 0]

less_than(p, in0, in1, out) ==
    LET val0 == load_input(p, in0, p.instruction_counter + 1)
        val1 == load_input(val0.vm, in1, p.instruction_counter + 2)
        out_val == IF val0.v < val1.v THEN 1 ELSE 0
        st == store_output(val1.vm, out, p.instruction_counter + 3, out_val)
    IN  IF ~IsOk(val0) THEN val0
        ELSE IF ~IsOk(val1) THEN val1
        ELSE IF ~IsOk(st) THEN st
        ELSE Ret(Advance(st.vm, 4), OkNone)

equals(p, in0, in1, out) ==
    LET val0 == load_input(p, in0, p.instruction_counter + 1)
        val1 == load_input(val0.vm, in1, p.instruction_counter + 2)
        out_val == IF val0.v = val1.v THEN 1 ELSE 0
        st == store_output(val1.vm, out, p.instruction_counter + 3, out_val)
    IN  IF ~IsOk(val0) THEN val0
        ELSE IF ~IsOk(val1) THEN val1
        ELSE IF ~IsOk(st) THEN st
        ELSE Ret(Advance(st.vm, 4), OkNone)

(* relative_mode that sets the relative base to its operand's value *)
relative_mode_overwriting(p, in0) ==
    LET val0 == load_input(p, in0, p.instruction_counter + 1)
    IN  IF ~IsOk(val0) THEN val0
        ELSE [vm |-> [val0.vm EXCEPT !.relative_base = val0.v,
                                     !.instruction_counter = @ + 2],
              t |-> "OkNone", v |-> 0]

relative_mode(p, in0) ==
    LET val0 == load_input(p, in0, p.instruction_counter + 1)
    IN  IF ~IsOk(val0) THEN val0
        ELSE Ret(Advance([val0.vm EXCEPT !.relative_base = @ + val0.v], 2), OkNone)

(* halt that moves the cursor past the Halt word *)
halt_advancing(p) ==
    [vm |-> [p EXCEPT !.instruction_counter = @ + 1], t |-> "CatchFire", v |-> 0]

halt(p) == Ret(p, CatchFire)

---------------------------------------------------------------------------
(* step, run, run_to_output *)

step(p) ==
    LET fetched == load_with_resize(p, p.instruction_counter)
        instruction == decode(fetched.v)
        q == fetched.vm
    IN  IF ~IsOk(fetched) THEN fetched
        ELSE IF ~instruction.ok THEN Ret(q, UnknownInstruction(fetched.v))
        ELSE CASE instruction.op = "Add" ->
                    add(q, instruction.in0, instruction.in1, instruction.out)
               [] instruction.op = "Mul" ->
                    mul(q, instruction.in0, instruction.in1, instruction.out)
               [] instruction.op = "Input" -> input(q, instruction.out)
               [] instruction.op = "Output" -> output(q, instruction.in0)
               [] instruction.op = "JumpIfTrue" ->
                    jump_if_true(q, instruction.in0, instruction.in1)
               [] instruction.op = "JumpIfFalse" ->
                    jump_if_false(q, instruction.in0, instruction.in1)
               [] instruction.op = "LessThan" ->
                    less_than(q, instruction.in0, instruction.in1, instruction.out)
               [] instruction.op = "Equals" ->
                    equals(q, instruction.in0, instruction.in1, instruction.out)
               [] instruction.op = "RelativeMode" ->
                    relative_mode(q, instruction.in0)
               [] instruction.op = "Halt" -> halt(q)

(* The drivers return what step returned last; path lists, for each step    *)
(* the loop made, the process as it was before the step and the step's       *)
(* result.  A loop still going after `fuel` steps is reported as Running:    *)
(* the call has not returned.  Each iteration binds `result` to the value   *)
(* of step(p), as `let result = self.step()` does, by drawing it from the    *)
(* one-element set {step(p)}.                                                *)
Out(r, path) == [vm |-> r.vm, t |-> r.t, v |-> r.v, path |-> path]

(* run written as `while let Ok(None) = self.step() {}`: it stops at the    *)
(* first output as if the program had halted                                 *)
RECURSIVE run_loop_until_event(_, _, _)
run_loop_until_event(p, fuel, path) ==
    IF fuel = 0 THEN [vm |-> p, t |-> "Running", v |-> 0, path |-> path]
    ELSE LET result == step(p)
             seen == Append(path, [vm |-> p, t |-> result.t, v |-> result.v])
         IN  IF result.t = "OkNone" THEN run_loop_until_event(result.vm, fuel - 1, seen)
             ELSE IF result.t = "OkSome"
                  THEN [vm |-> result.vm, t |-> "CatchFire", v |-> 0, path |-> seen]
                  ELSE [vm |-> result.vm, t |-> result.t, v |-> result.v, path |-> seen]

(* run that skips an instruction that failed with Segfault and goes on *)
RECURSIVE run_loop_past_segfault(_, _, _)
run_loop_past_segfault(p, fuel, path) ==
    IF fuel = 0 THEN [vm |-> p, t |-> "Running", v |-> 0, path |-> path]
    ELSE CHOOSE returned_value \in
            { IF result.t \in {"OkNone", "OkSome"}
              THEN run_loop_past_segfault(result.vm, fuel - 1,
                        Append(path, [vm |-> p, t |-> result.t, v |-> result.v]))
              ELSE IF result.t = "Segfault"
                   THEN run_loop_past_segfault(
                            [result.vm EXCEPT !.instruction_counter = @ + 1], fuel - 1,
                            Append(path, [vm |-> p, t |-> result.t, v |-> result.v]))
                   ELSE [vm |-> result.vm, t |-> result.t, v |-> result.v,
                         path |-> Append(path, [vm |-> p, t |-> result.t, v |-> result.v])] :
                result \in {step(p)} } : TRUE

(* run that decodes every word of the tape before each step and fails on    *)
(* the first that is no instruction                                          *)
RECURSIVE run_loop_validating(_, _, _)
run_loop_validating(p, fuel, path) ==
    IF fuel = 0 THEN [vm |-> p, t |-> "Running", v |-> 0, path |-> path]
    ELSE IF \E a \in 1..Len(p.memory) : ~decode(p.memory[a]).ok
    THEN [vm |-> p, t |-> "UnknownInstruction",
          v |-> p.memory[CHOOSE a \in 1..Len(p.memory) :
                            /\ ~decode(p.memory[a]).ok
                            /\ \A b \in 1..(a - 1) : decode(p.memory[b]).ok],
          path |-> path]
    ELSE CHOOSE returned_value \in
            { IF result.t \in {"OkNone", "OkSome"}
              THEN run_loop_validating(result.vm, fuel - 1,
                        Append(path, [vm |-> p, t |-> result.t, v |-> result.v]))
              ELSE [vm |-> result.vm, t |-> result.t, v |-> result.v,
                    path |-> Append(path, [vm |-> p, t |-> result.t, v |-> result.v])] :
                result \in {step(p)} } : TRUE

RECURSIVE run_loop(_, _, _)
run_loop(p, fuel, path) ==
    IF fuel = 0 THEN Out(Ret(p, Running), path)
    ELSE CHOOSE returned_value \in
            { IF IsOk(result)
              THEN run_loop(result.vm, fuel - 1, Append(path, Ret(p, result)))
              ELSE Out(result, Append(path, Ret(p, result))) :
                result \in {step(p)} } : TRUE

(* The loop of run taken MaxSteps iterations at a time: run_loop(p, fuel,    *)
(* path), evaluated without nesting one call per iteration                   *)
RECURSIVE run_resumed(_, _, _)
run_resumed(p, fuel, path) ==
    IF fuel <= MaxSteps THEN run_loop(p, fuel, path)
    ELSE CHOOSE returned_value \in
            { IF part.t = "Running"
              THEN run_resumed(part.vm, fuel - MaxSteps, part.path)
              ELSE part :
                part \in {run_loop(p, MaxSteps, path)} } : TRUE

run(p, fuel) == run_resumed(p, fuel, <<>>)

(* run_to_output that does not stop at an output *)
RECURSIVE run_to_output_loop_through(_, _, _)
run_to_output_loop_through(p, fuel, path) ==
    IF fuel = 0 THEN [vm |-> p, t |-> "Running", v |-> 0, path |-> path]
    ELSE LET result == step(p)
             seen == Append(path, [vm |-> p, t |-> result.t, v |-> result.v])
         IN  IF result.t \in {"OkNone", "OkSome"}
             THEN run_to_output_loop_through(result.vm, fuel - 1, seen)
             ELSE [vm |-> result.vm, t |-> result.t, v |-> result.v, path |-> seen]

RECURSIVE run_to_output_loop(_, _, _)
run_to_output_loop(p, fuel, path) ==
    IF fuel = 0 THEN Out(Ret(p, Running), path)
    ELSE CHOOSE returned_value \in
            { IF ~IsOk(result) THEN Out(result, Append(path, Ret(p, result)))
              ELSE IF result.t = "OkSome"
                   THEN Out(Ret(result.vm, Ok(result.v)), Append(path, Ret(p, result)))
                   ELSE run_to_output_loop(result.vm, fuel - 1,
                                           Append(path, Ret(p, result))) :
                result \in {step(p)} } : TRUE

run_to_output(p, fuel) == run_to_output_loop(p, fuel, <<>>)

---------------------------------------------------------------------------
(* The handlers on words at their width.  Instruction words and the words    *)
(* used as addresses are of small magnitude in the programs below and are    *)
(* read as integers; the tape is never resized by them.                      *)
load_input_wide(p, mode, parameter_location) ==
    LET parameter == load_with_resize(p, parameter_location)
    IN  IF ~IsOk(parameter) THEN parameter
        ELSE CASE mode = "Position" ->
                    load_with_resize(parameter.vm, ToInt(parameter.v))
               [] mode = "Immediate" -> parameter
               [] mode = "Relative" ->
                    load_with_resize(parameter.vm,
                                     ToInt(parameter.v) + parameter.vm.relative_base)

store_output_wide(p, mode, parameter_location, value) ==
    LET parameter == load_with_resize(p, parameter_location)
    IN  IF ~IsOk(parameter) THEN parameter
        ELSE CASE mode = "Position" ->
                    store_with_resize(parameter.vm, ToInt(parameter.v), value)
               [] mode = "Relative" ->
                    store_with_resize(parameter.vm,
                                      ToInt(parameter.v) + parameter.vm.relative_base,
                                      value)

add_wide(p, in0, in1, out, overflow_checks) ==
    LET val0 == load_input_wide(p, in0, p.instruction_counter + 1)
        val1 == load_input_wide(val0.vm, in1, p.instruction_counter + 2)
        st == store_output_wide(val1.vm, out, p.instruction_counter + 3,
                                isize_add(val0.v, val1.v))
    IN  IF ~IsOk(val0) THEN val0
        ELSE IF ~IsOk(val1) THEN val1
        ELSE IF overflow_checks /\ ~Fits(ExactSum(val0.v, val1.v))
             THEN Ret(val1.vm, Panic)
        ELSE IF ~IsOk(st) THEN st
        ELSE Ret(Advance(st.vm, 4), OkNone)

mul_wide(p, in0, in1, out, overflow_checks) ==
    LET val0 == load_input_wide(p, in0, p.instruction_counter + 1)
        val1 == load_input_wide(val0.vm, in1, p.instruction_counter + 2)
        st == store_output_wide(val1.vm, out, p.instruction_counter + 3,
                                isize_mul(val0.v, val1.v))
    IN  IF ~IsOk(val0) THEN val0
        ELSE IF ~IsOk(val1) THEN val1
        ELSE IF overflow_checks /\ ~Fits(ExactProduct(val0.v, val1.v, 2 * IsizeBytes))
             THEN Ret(val1.vm, Panic)
        ELSE IF ~IsOk(st) THEN st
        ELSE Ret(Advance(st.vm, 4), OkNone)

output_wide(p, in0) ==
    LET val0 == load_input_wide(p, in0, p.instruction_counter + 1)
    IN  IF ~IsOk(val0) THEN val0
        ELSE Ret(Advance([val0.vm EXCEPT !.outputs = Append(@, val0.v)], 2),
                 OkSome(val0.v))

(* step on a tape of Add, Mul, Output and Halt instructions *)
step_wide(p, overflow_checks) ==
    LET fetched == load_with_resize(p, p.instruction_counter)
        instruction == decode(ToInt(fetched.v))
        q == fetched.vm
    IN  IF ~IsOk(fetched) THEN fetched
        ELSE IF ~instruction.ok THEN Ret(q, UnknownInstruction(fetched.v))
        ELSE CASE instruction.op = "Add" ->
                    add_wide(q, instruction.in0, instruction.in1, instruction.out,
                             overflow_checks)
               [] instruction.op = "Mul" ->
                    mul_wide(q, instruction.in0, instruction.in1, instruction.out,
                             overflow_checks)
               [] instruction.op = "Output" -> output_wide(q, instruction.in0)
               [] instruction.op = "Halt" -> halt(q)

RECURSIVE run_wide_loop(_, _, _, _)
run_wide_loop(p, fuel, path, overflow_checks) ==
    IF fuel = 0 THEN Out(Ret(p, Running), path)
    ELSE CHOOSE returned_value \in
            { IF IsOk(result)
              THEN run_wide_loop(result.vm, fuel - 1, Append(path, Ret(p, result)),
                                 overflow_checks)
              ELSE Out(result, Append(path, Ret(p, result))) :
                result \in {step_wide(p, overflow_checks)} } : TRUE

run_wide(p, fuel, overflow_checks) == run_wide_loop(p, fuel, <<>>, overflow_checks)

---------------------------------------------------------------------------
(* The inspection accessors (&self) *)

instruction_counter_read(p) == Ret(p, Ok(as_usize(p.instruction_counter)))

relative_base_read(p) == Ret(p, Ok(p.relative_base))

---------------------------------------------------------------------------
(* Observation of a call *)

(* The tape read as zero-filled beyond its end *)
Cell(m, a) == IF a >= 0 /\ a < Len(m) THEN At(m, a) ELSE 0

(* The process after the i-th step of a call that ended in `final` *)
After(path, final, i) == IF i < Len(path) THEN path[i + 1].vm ELSE final

WordAt(p) == Cell(p.memory, p.instruction_counter)

(* The k-th operand word of the instruction at the cursor of p *)
Operand(p, k) == Cell(p.memory, p.instruction_counter + k)

(* The address a position or relative parameter refers to *)
Effective(p, mode, k) ==
    IF mode = "Relative" THEN Operand(p, k) + p.relative_base ELSE Operand(p, k)

(* The address an Input instruction at the cursor of p writes to *)
InputTarget(p) == Effective(p, decode(WordAt(p)).out, 1)

(* The values the successful Input steps i.. of a call stored, in order *)
StoredInputs(path, final, i) ==
    LET stored(k) == /\ decode(WordAt(path[k].vm)).ok
                     /\ decode(WordAt(path[k].vm)).op = "Input"
                     /\ IsOk(path[k])
        at == SelectSeq([k \in 1..Len(path) |-> k], LAMBDA k : k >= i /\ stored(k))
    IN  [n \in 1..Len(at) |->
            Cell(After(path, final, at[n]).memory, InputTarget(path[at[n]].vm))]

---------------------------------------------------------------------------
(* Bounded inputs of the model *)

InputValues == {421, 500}
StoreValues == {0, 99}
Addresses == {-2, -1, 0, 1} \cup {Len(memory) - 1, Len(memory), Len(memory) + MaxFar}

(* Programs of the tests of intcode/src/lib.rs *)
TestPrograms ==
    { <<1, 0, 0, 0, 99>>,
      <<2, 3, 0, 3, 99>>,
      <<1, 1, 1, 4, 99, 5, 6, 0, 99>>,
      <<3, 5, 4, 5, 99, 0>>,
      <<3, 9, 4, 9, 3, 10, 4, 10, 99, 0, 0>>,
      <<1101, 10, 20, 5, 99, 0>>,
      <<104, 1, 104, 2, 104, 3, 99>>,
      <<109, 9, 204, 0, 204, 1, 204, -1, 99, 100, 101>>,
      <<109, 9, 203, 0, 203, 1, 203, -4, 99, 0, 0>> }

(* test_extra_space with the far address len + k in place of 1000 *)
FarPrograms ==
    UNION { { <<4, 3 + k, 99>>,
              <<1101, 1, 2, 7 + k, 4, 7 + k, 99>>,
              <<3, 5 + k, 4, 5 + k, 99>>,
              <<109, 2, 21101, 1, 2, 5 + k, 204, 5 + k, 99>> } : k \in 0..MaxFar }

(* A loop that outputs its countdown cell until it is 0 *)
LoopPrograms ==
    { <<4, 9, 1001, 9, -1, 9, 1005, 9, 0, 2, 99>>,
      <<3, 0, 1105, 1, 0>>,
      <<1105, 1, 0>> }

(* Programs that touch a negative address *)
FaultPrograms ==
    { <<4, -1, 99>>,
      <<3, -1, 4, 0, 99>>,
      <<109, -3, 204, 1, 99>>,
      <<1101, 1, 1, -2, 99>> }

Programs == TestPrograms \cup FarPrograms \cup LoopPrograms \cup FaultPrograms

(* One Add or Mul with every operand in -1..MaxOperand, followed by Halt, by  *)
(* Halt and data, or by a second instruction and Halt (test_cases)           *)
ArithRests ==
    { <<99>>, <<99, 0>>, <<99, 5, 6, 0, 99>>,
      <<1, 0, 0, 0, 99>>, <<2, 3, 0, 3, 99>>, <<2, 4, 4, 5, 99, 0>>,
      <<1, 5, 6, 8, 99>>, <<2, 0, 4, 9, 99, 3>> }

ArithPrograms ==
    { <<op, a, b, c>> \o rest :
        op \in {1, 2}, a \in -1..MaxOperand, b \in -1..MaxOperand,
        c \in -1..MaxOperand, rest \in ArithRests }

(* test_quine *)
Quine == <<109, 1, 204, -1, 1001, 100, 1, 100, 1008, 100, 16, 101, 1006, 101, 0, 99>>

(* Reads and writes through position and relative parameters, after the      *)
(* relative base was moved to 3: operands below 0, inside and beyond the     *)
(* tape (test_relative_mode_input, test_relative_mode_output)                *)
AddressOperands == {-4, -2, 1, 12}

RelativePrograms ==
    { <<109, 3, 3 + 100 * m, x, 99, 55, 66>> : m \in {0, 2}, x \in AddressOperands }
    \cup { <<109, 3, 4 + 100 * m, x, 99, 55, 66>> : m \in {0, 2}, x \in AddressOperands }
    \cup { <<109, 3, op + 1100 + 10000 * m, 3, 4, x, 99, 55, 66>> :
             op \in {1, 2, 7, 8}, m \in {0, 2}, x \in AddressOperands }
    \cup { <<109, 3, op + 1000 + 100 * m, x, 55, 7, 99, 55, 66>> :
             op \in {1, 8}, m \in {0, 2}, x \in AddressOperands }
    \cup { <<109, 3, op + 100 + 1000 * m, 55, x, 7, 99, 55, 66>> :
             op \in {1, 8}, m \in {0, 2}, x \in AddressOperands }
    \cup { <<109, 3, op + 1000 + 100 * m, x, 7, 99, 5, 104, 66, 99>> :
             op \in {5, 6}, m \in {0, 2}, x \in AddressOperands }
    \cup { <<109, 9, 204, 0, 204, 1, 204, -1, 99, 100, 101>>,
           <<109, 9, 203, 0, 203, 1, 203, -4, 99, 0, 0>> }

(* test_day_large_mult, test_large_numbers *)
LargeMult == FromDecimal(<<3, 4, 9, 1, 5, 1, 9, 2>>)
LargeNumber == FromDecimal(<<1, 1, 2, 5, 8, 9, 9, 9, 0, 6, 8, 4, 2, 6, 2, 4>>)

(* Operands around and beyond 32 bits, of both signs *)
WideValues ==
    { LargeMult, Negated(LargeMult), LargeNumber, FromInt(3), FromInt(-1),
      FromDecimal(<<2, 1, 4, 7, 4, 8, 3, 6, 4, 8>>),
      FromDecimal(<<9, 2, 2, 3, 3, 7, 2, 0, 3, 6, 8, 5, 4, 7, 7, 5, 8, 0, 7>>) }

(* The two test programs with every pair of operands, with Add in place of   *)
(* Mul and with the operands in position mode                                *)
WidePrograms ==
    { <<FromInt(op), a, b, FromInt(7), FromInt(4), FromInt(7), FromInt(99), FromInt(0)>> :
        op \in {1101, 1102}, a \in WideValues, b \in WideValues }
    \cup { <<FromInt(op), FromInt(8), FromInt(9), FromInt(7), FromInt(4), FromInt(7),
             FromInt(99), FromInt(0), a, b>> :
             op \in {1, 2}, a \in WideValues, b \in WideValues }
    \cup { <<FromInt(104), a, FromInt(99)>> : a \in WideValues }
    \cup { <<FromInt(4), FromInt(3), FromInt(99), a>> : a \in WideValues }

(* An Add that writes a word over the next instruction, and words that are   *)
(* no instruction where the cursor never comes (test_cases)                  *)
RewrittenWords == {0, 1, 2, 98, 99, 302}

LazyPrograms ==
    { <<1101, new, 0, 4, old, 5, 6, 0, 99>> :
        new \in RewrittenWords, old \in RewrittenWords }
    \cup { <<1, 1, 1, 4, 99, 5, 6, 0, 99>>,
           <<1105, 1, 4, 98, 99>>,
           <<104, 5, 99, 77777>>,
           <<99, 98, -5, 302>> }

(* An instruction word: opcode and the mode digits of its three parameters *)
Word(op, m1, m2, m3) == op + 100 * m1 + 1000 * m2 + 10000 * m3

(* Words that are no instruction, met after an output and an adjustment of   *)
(* the relative base; a cursor that runs or jumps beyond the tape            *)
UnknownWords ==
    { Word(op, m, m, m) : op \in {0, 10, 11, 50, 98}, m \in 0..MaxMode }
        \cup {-1, -3, -99, -101, -1101}

UnknownPrograms ==
    { <<104, 7, 109, 3, w, 5, 6, 7, 99>> : w \in UnknownWords }
        \cup { <<104, 7, 109, 3>>, <<104, 7, 1105, 1, 9>>, <<3, 1, 104, 7, 99>> }

OpCodes == (0..10) \cup {98, 99}
NegativeWords == {-1, -3, -99, -101, -1101}
OperandValues == {-2, 1, 12}

(* Every opcode with every combination of mode digits, executed after the    *)
(* relative base was moved                                                   *)
DecodePrograms ==
    { <<109, 3, w, 5, 6, 7, 99, 0, 0, 0>> :
        w \in { Word(op, m1, m2, m3) :
                  op \in OpCodes, m1 \in 0..MaxMode, m2 \in 0..MaxMode,
                  m3 \in 0..MaxMode } \cup NegativeWords }

BinaryWords ==
    { Word(op, m1, m2, m3) : op \in {1, 2, 7, 8}, m1 \in 0..2, m2 \in 0..2, m3 \in {0, 2} }
JumpWords == { Word(op, m1, m2, 0) : op \in {5, 6}, m1 \in 0..2, m2 \in 0..2 }
UnaryWords == { Word(op, m1, 0, 0) : op \in {4, 9}, m1 \in 0..2 } \cup {3, 203}

(* Every instruction in every valid mode on operands below, inside and       *)
(* beyond the tape                                                           *)
OperandPrograms ==
    { <<109, 3, w, a, b, c, 99, 0>> :
        w \in BinaryWords \cup JumpWords \cup UnaryWords,
        a \in OperandValues, b \in OperandValues, c \in OperandValues }

(* Three adjustments of the relative base, each in any mode *)
RelativeBasePrograms ==
    { <<w1, a, w2, b, w3, c, 99, 4, -3, 6>> :
        w1 \in {9, 109, 209}, w2 \in {9, 109, 209}, w3 \in {9, 109, 209},
        a \in {-1, 2, 8}, b \in {-1, 2, 8}, c \in {-1, 2, 8} }

(* test_immediate_mode, test_moving_relative_mode *)
ModeTestPrograms ==
    { <<1101, 10, 20, 5, 99, 0>>,
      <<109, 13, 109, 2, 204, 0, 9, 18, 204, 0, 209, 3, 204, -1, 99,
        1015, 1016, 1017, 1, 2>>,
      <<109, 9, 109, 2, 204, -11, 99>> }

ModePrograms ==
    DecodePrograms \cup OperandPrograms \cup RelativeBasePrograms \cup ModeTestPrograms

---------------------------------------------------------------------------
(* The calls of a caller on one process *)

Blocked == last.t = "Running"

(* The number of instructions a behaviour executes at most *)
Budget == IF program = Quine THEN MaxQuineSteps ELSE MaxSteps

Drivers == {"run", "run_to_output"}

(* retry.stage: 0 none; 1 add_input(x) followed a driver call that returned  *)
(* NoInputAvailable on the process `pre`; 2 the same driver was called again *)
NoRetry == [stage |-> 0, op |-> "none", pre |-> from_vec(<<>>), x |-> 0]

Call(op, a, x, r, path) ==
    [op |-> op, a |-> a, x |-> x, pre |-> self, t |-> r.t, v |-> r.v, path |-> path]

Becomes(p) ==
    /\ memory' = p.memory
    /\ instruction_counter' = p.instruction_counter
    /\ relative_base' = p.relative_base
    /\ inputs' = p.inputs
    /\ outputs' = p.outputs

Created(progs) ==
    /\ program \in progs
    /\ memory = program
    /\ instruction_counter = 0
    /\ relative_base = 0
    /\ inputs = <<>>
    /\ outputs = <<>>
    /\ last = [op |-> "from_vec", a |-> 0, x |-> 0, pre |-> from_vec(program),
               t |-> "Ok", v |-> 0, path |-> <<>>]
    /\ fed = <<>>
    /\ taken = <<>>
    /\ returned = <<>>
    /\ drivers = {}
    /\ origin = from_vec(program)
    /\ stores = 0
    /\ steps = 0
    /\ retry = NoRetry
    /\ halted = 0

(* One process, no amplifiers *)
NoAmplifiers == [who |-> "none", op |-> "none", heap |-> <<>>, processes |-> <<>>,
                 n |-> 0, t |-> "Ok", v |-> 0, path |-> <<>>]

(* No call of run_thrust_amplifiers_feedback *)
NoFeedback == [state |-> "none"]

(* No Intcode of day-02 *)
NoIntcode == [t |-> "none"]

amplifiers == <<heap, processes, acted, feedback>>

InitOf(progs) ==
    /\ Created(progs)
    /\ heap = <<>>
    /\ processes = <<>>
    /\ acted = NoAmplifiers
    /\ feedback = NoFeedback
    /\ intcode = NoIntcode

Init == InitOf(Programs)

(* An execution call: r is what the driver returned *)
Executed(op, r) ==
    /\ Becomes(r.vm)
    /\ last' = Call(op, 0, 0, r, r.path)
    /\ taken' = taken \o StoredInputs(r.path, r.vm, 1)
    /\ returned' = IF op = "run_to_output" /\ r.t = "Ok"
                   THEN Append(returned, r.v) ELSE returned
    /\ drivers' = drivers \cup {op}
                   \cup (IF r.t \in Errors THEN {"failed"} ELSE {})
                   \cup (IF "failed" \in drivers THEN {"after_error"} ELSE {})
    /\ steps' = steps + Len(r.path)
    /\ retry' = IF retry.stage = 1 /\ op = retry.op
                THEN [retry EXCEPT !.stage = 2] ELSE NoRetry
    /\ halted' = IF r.t = "CatchFire" /\ halted < 2 THEN halted + 1 ELSE halted
    /\ UNCHANGED <<program, fed, origin, stores, amplifiers, intcode>>

Step ==
    /\ ~Blocked
    /\ steps < Budget
    /\ Executed("step", Out(step(self), <<Ret(self, step(self))>>))

Run ==
    /\ ~Blocked
    /\ steps < Budget
    /\ Executed("run", run(self, Budget - steps))

RunToOutput ==
    /\ ~Blocked
    /\ steps < Budget
    /\ Executed("run_to_output", run_to_output(self, Budget - steps))

AddInput ==
    /\ ~Blocked
    /\ Len(fed) < MaxInputs
    /\ \E value \in InputValues :
        /\ Becomes(add_input(self, value))
        /\ last' = Call("add_input", 0, value, Ok(0), <<>>)
        /\ fed' = Append(fed, value)
        /\ origin' = IF drivers = {} THEN add_input(self, value) ELSE origin
        /\ drivers' = IF drivers = {} THEN drivers ELSE drivers \cup {"add_input"}
        /\ retry' = IF last.op \in Drivers /\ last.t = "NoInputAvailable"
                    THEN [stage |-> 1, op |-> last.op, pre |-> last.pre, x |-> value]
                    ELSE NoRetry
        /\ UNCHANGED <<program, taken, returned, stores, steps, halted, amplifiers, intcode>>

Load ==
    /\ ~Blocked
    /\ \E address \in Addresses :
        LET r == load(self, address)
        IN  /\ Becomes(r.vm)
            /\ last' = Call("load", address, 0, r, <<>>)
            /\ UNCHANGED <<program, fed, taken, returned, drivers, origin, stores, steps,
                           retry, halted, amplifiers, intcode>>

Store ==
    /\ ~Blocked
    /\ stores < MaxStores
    /\ \E address \in Addresses, value \in StoreValues :
        LET r == store(self, address, value)
        IN  /\ Becomes(r.vm)
            /\ last' = Call("store", address, value, r, <<>>)
            /\ stores' = stores + 1
            /\ origin' = IF drivers = {} THEN r.vm ELSE origin
            /\ drivers' = IF drivers = {} THEN drivers ELSE drivers \cup {"store"}
            /\ UNCHANGED <<program, fed, taken, returned, steps, retry, halted, amplifiers, intcode>>

Next == Step \/ Run \/ RunToOutput \/ AddInput

Spec == Init /\ [][Next]_vars

(* A caller that patches and inspects the memory between steps *)
NextMemory == Step \/ Load \/ Store

SpecMemory == Init /\ [][NextMemory]_vars

(* Add/Mul programs, run or stepped *)
InitArith == InitOf(ArithPrograms)

NextArith == Step \/ Run

SpecArith == InitArith /\ [][NextArith]_vars

(* Programs over the opcodes and parameter modes, run or stepped *)
InitModes == InitOf(ModePrograms)

NextModes == Step \/ Run

SpecModes == InitModes /\ [][NextModes]_vars

(* Programs on words beyond 32 bits, run or stepped.  The profile, with or   *)
(* without overflow checks, is the build's: each call is followed under both *)
ExecutedWide(op, r) ==
    /\ Becomes(r.vm)
    /\ last' = Call(op, 0, 0, r, r.path)
    /\ drivers' = drivers \cup {op} \cup (IF IsOk(r) THEN {} ELSE {"failed"})
    /\ steps' = steps + Len(r.path)
    /\ halted' = IF r.t = "CatchFire" /\ halted < 2 THEN halted + 1 ELSE halted
    /\ UNCHANGED <<program, fed, taken, returned, origin, stores, retry, amplifiers, intcode>>

Aborted == last.t = "Panic"

StepWide ==
    /\ ~Blocked /\ ~Aborted
    /\ steps < MaxSteps
    /\ \E overflow_checks \in BOOLEAN :
        ExecutedWide("step", Out(step_wide(self, overflow_checks),
                                 <<Ret(self, step_wide(self, overflow_checks))>>))

RunWide ==
    /\ ~Blocked /\ ~Aborted
    /\ steps < MaxSteps
    /\ \E overflow_checks \in BOOLEAN :
        ExecutedWide("run", run_wide(self, MaxSteps - steps, overflow_checks))

InitWide == InitOf(WidePrograms)

NextWide == StepWide \/ RunWide

SpecWide == InitWide /\ [][NextWide]_vars

(* The quine, run or stepped *)
InitQuine == InitOf({Quine})

NextQuine == Step \/ Run

SpecQuine == InitQuine /\ [][NextQuine]_vars

(* Programs that reach a word that is no instruction, fed and stepped *)
InitUnknown == InitOf(UnknownPrograms)

NextUnknown == Step \/ Run \/ AddInput

SpecUnknown == InitUnknown /\ [][NextUnknown]_vars

(* Programs reading and writing through position and relative parameters,    *)
(* fed and stepped                                                           *)
InitRelative == InitOf(RelativePrograms)

NextRelative == Step \/ Run \/ AddInput

SpecRelative == InitRelative /\ [][NextRelative]_vars

(* Programs that rewrite the word the cursor reaches next, run or stepped *)
InitLazy == InitOf(LazyPrograms)

NextLazy == Step \/ Run

SpecLazy == InitLazy /\ [][NextLazy]_vars

---------------------------------------------------------------------------
(* Reference arithmetic on a zero-filled tape: the instructions applied in   *)
(* program order, out := in + in or out := in * in, until a 99               *)

Max(a, b) == IF a >= b THEN a ELSE b

SameTape(m1, m2) ==
    \A a \in 0..(Max(Len(m1), Len(m2)) - 1) : Cell(m1, a) = Cell(m2, a)

Put(m, a, x) ==
    [(IF a >= Len(m) THEN resize(m, a + 1) ELSE m) EXCEPT ![a + 1] = x]

RECURSIVE Arith(_, _, _, _)
Arith(m, pc, fuel, inside) ==
    LET w == Cell(m, pc)
        a == Cell(m, pc + 1)
        b == Cell(m, pc + 2)
        c == Cell(m, pc + 3)
        x == IF w = 1 THEN Cell(m, a) + Cell(m, b) ELSE Cell(m, a) * Cell(m, b)
        within == pc + 3 < Len(m) /\ a < Len(m) /\ b < Len(m) /\ c < Len(m)
    IN  IF w = 99 THEN [halts |-> TRUE, tape |-> m, inside |-> inside]
        ELSE IF fuel > 0 /\ w \in {1, 2} /\ a >= 0 /\ b >= 0 /\ c >= 0
             THEN Arith(Put(m, c, x), pc + 4, fuel - 1, inside /\ within)
             ELSE [halts |-> FALSE, tape |-> m, inside |-> inside]

Reference == Arith(program, 0, MaxSteps, TRUE)

(* The last call was run(), made on the process as created *)
RanFromStart == last.op = "run" /\ last.pre = from_vec(program)

(* C1 as stated: on every Add/Mul program followed by Halt, run() returns    *)
(* CatchFire and leaves the memory the in-order arithmetic gives.            *)
C1_AsStated ==
    RanFromStart =>
        last.t = "CatchFire" /\ SameTape(memory, Reference.tape)

(* C1 amended: on every Add/Mul program followed by Halt whose in-order      *)
(* execution meets only words 1 and 2 with non-negative operands until it    *)
(* meets a 99 (no instruction rewrites a word the cursor still reaches into  *)
(* something else), run() terminates and returns CatchFire, and the final    *)
(* memory is what applying each instruction's arithmetic in program order    *)
(* gives: cell for cell, and the very same tape when every operand lies      *)
(* inside it ([1,0,0,0,99] ends as [2,0,0,0,99]).                            *)
C1_RunArith ==
    (RanFromStart /\ Reference.halts) =>
        /\ last.t = "CatchFire"
        /\ SameTape(memory, Reference.tape)
        /\ Reference.inside => memory = Reference.tape
        /\ program = <<1, 0, 0, 0, 99>> => memory = <<2, 0, 0, 0, 99>>
        /\ program = <<1, 1, 1, 4, 99, 5, 6, 0, 99>>
            => memory = <<30, 1, 1, 4, 2, 5, 6, 0, 99>>

(* C1 witness: a self-modifying Add/Mul program has run to CatchFire *)
C1_Witness ==
    /\ RanFromStart
    /\ program = <<1, 1, 1, 4, 99, 5, 6, 0, 99>>
    /\ Reference.halts
    /\ last.t = "CatchFire"
    /\ memory = <<30, 1, 1, 4, 2, 5, 6, 0, 99>>

---------------------------------------------------------------------------
(* The caller-side load and store *)

Len0 == Len(last.pre.memory)

(* C2: load(a) and store(a, v) with a < 0 return Err(Segfault(a)) whatever   *)
(* the memory holds, and the failed call leaves the memory as it was.        *)
C2_NegativeAddress ==
    (last.op \in {"load", "store"} /\ last.a < 0) =>
        /\ last.t = "Segfault"
        /\ last.v = last.a
        /\ memory = last.pre.memory
        /\ self = last.pre

(* C2 witness: a store at a negative address on a tape that execution has    *)
(* changed                                                                   *)
C2_Witness ==
    /\ last.op = "store"
    /\ last.a < 0
    /\ last.t = "Segfault"
    /\ memory # program

(* C3 as stated: load(a) with a >= the tape length returns 0 and does not    *)
(* fail.                                                                     *)
C3_AsStated ==
    (last.op = "load" /\ last.a >= Len0) => (last.t = "Ok" /\ last.v = 0)

(* C3 amended: the public load(a) with a >= the tape length returns          *)
(* Err(Segfault(a)), never a value, and materialises nothing (zero-fill      *)
(* reads exist only inside instruction execution).                           *)
C3_LoadBeyondTape ==
    (last.op = "load" /\ last.a >= Len0) =>
        /\ last.t = "Segfault"
        /\ last.v = last.a
        /\ Len(memory) = Len0

(* C3 witness: a load beyond the tape has failed *)
C3_Witness ==
    /\ last.op = "load"
    /\ last.a > Len0
    /\ last.t = "Segfault"

(* C4 as stated: store(a, v) with a >= the tape length succeeds, extends the *)
(* tape to a + 1 cells, zero-fills the cells between and writes v at a.      *)
C4_AsStated ==
    (last.op = "store" /\ last.a >= Len0) =>
        /\ last.t = "Ok"
        /\ Len(memory) = last.a + 1
        /\ memory[last.a + 1] = last.x
        /\ \A i \in (Len0 + 1)..last.a : memory[i] = 0

(* C4 amended: the public store(a, v) with a >= the tape length returns      *)
(* Err(Segfault(a)) and neither extends the tape nor writes anything (the    *)
(* tape is extended only by instruction execution).                          *)
C4_StoreBeyondTape ==
    (last.op = "store" /\ last.a >= Len0) =>
        /\ last.t = "Segfault"
        /\ last.v = last.a
        /\ memory = last.pre.memory

(* C4 witness: a store of a non-zero value beyond the tape has failed *)
C4_Witness ==
    /\ last.op = "store"
    /\ last.a >= Len0
    /\ last.x # 0
    /\ last.t = "Segfault"

(* C5: on a tape of length n, load(a) and store(a, v) with a >= n return     *)
(* Err(Segfault(a)) and change nothing; store(a, v) with 0 <= a < n returns  *)
(* Ok, a following load(a) returns v, and every other cell is unchanged.     *)
C5_LoadStoreInTape ==
    /\ (last.op \in {"load", "store"} /\ last.a >= Len0) =>
        (last.t = "Segfault" /\ last.v = last.a /\ self = last.pre)
    /\ (last.op = "store" /\ 0 <= last.a /\ last.a < Len0) =>
        /\ last.t = "Ok"
        /\ load(self, last.a).t = "Ok"
        /\ load(self, last.a).v = last.x
        /\ Len(memory) = Len0
        /\ \A i \in 1..Len0 : i # last.a + 1 => memory[i] = last.pre.memory[i]
        /\ self = [last.pre EXCEPT !.memory = memory]

(* C5 witness: a store inside the tape has changed a cell *)
C5_Witness ==
    /\ last.op = "store"
    /\ 0 < last.a /\ last.a < Len0
    /\ last.t = "Ok"
    /\ memory[last.a + 1] = last.x
    /\ memory # last.pre.memory

---------------------------------------------------------------------------
(* The steps of the last call, read against the zero-filled tape *)

LastSteps == 1..Len(last.path)
Pre(i) == last.path[i].vm
Post(i) == After(last.path, self, i)
Res(i) == last.path[i]
Dec(i) == decode(WordAt(Pre(i)))

Addressed(mode) == mode \in {"Position", "Relative"}

(* The operand word that holds the write target *)
OutK(d) == IF d.op = "Input" THEN 1 ELSE 3

(* The addresses an instruction reads and writes through its parameters *)
ReadAddresses(p, d) ==
    (IF Addressed(d.in0) THEN {Effective(p, d.in0, 1)} ELSE {})
        \cup (IF Addressed(d.in1) THEN {Effective(p, d.in1, 2)} ELSE {})

WriteAddresses(p, d) ==
    IF Addressed(d.out) THEN {Effective(p, d.out, OutK(d))} ELSE {}

(* The value of an input parameter *)
InValue(p, mode, k) ==
    IF mode = "Immediate" THEN Operand(p, k) ELSE Cell(p.memory, Effective(p, mode, k))

(* The value an instruction with a write target stores *)
Written(p, d) ==
    LET x == InValue(p, d.in0, 1)
        y == InValue(p, d.in1, 2)
    IN  CASE d.op = "Add" -> x + y
          [] d.op = "Mul" -> x * y
          [] d.op = "LessThan" -> IF x < y THEN 1 ELSE 0
          [] d.op = "Equals" -> IF x = y THEN 1 ELSE 0
          [] d.op = "Input" -> Head(p.inputs)

FirstRun == last.op = "run" /\ last.pre = from_vec(program)

(* C6: while executing, a read of a non-negative address beyond the tape     *)
(* yields 0 and a write to one extends the tape, zero-filling the cells      *)
(* between, and stores the value, which a later read returns; no step whose  *)
(* addresses are all non-negative fails with Segfault.                       *)
C6_GrowOnAccess ==
    /\ \A i \in LastSteps :
        LET p == Pre(i)
            q == Post(i)
            d == Dec(i)
            n == Len(p.memory)
        IN  d.ok =>
            /\ (\A a \in ReadAddresses(p, d) \cup WriteAddresses(p, d) : a >= 0)
                => Res(i).t # "Segfault"
            /\ (d.op = "Output" /\ Addressed(d.in0) /\ Effective(p, d.in0, 1) >= n) =>
                /\ Res(i).t = "OkSome" /\ Res(i).v = 0
                /\ q.outputs = Append(p.outputs, 0)
            /\ \A w \in WriteAddresses(p, d) :
                (/\ w >= n
                 /\ \A a \in ReadAddresses(p, d) : a >= 0
                 /\ d.op = "Input" => p.inputs # <<>>) =>
                    /\ IsOk(Res(i))
                    /\ Len(q.memory) > w
                    /\ Cell(q.memory, w) = Written(p, d)
                    /\ \A a \in 0..(Len(q.memory) - 1) :
                        a # w => Cell(q.memory, a) = Cell(p.memory, a)
    /\ \A k \in 0..MaxFar :
        /\ (FirstRun /\ program = <<4, 3 + k, 99>>) =>
            (last.t = "CatchFire" /\ outputs = <<0>>)
        /\ (FirstRun /\ program = <<1101, 1, 2, 7 + k, 4, 7 + k, 99>>) =>
            (last.t = "CatchFire" /\ outputs = <<3>> /\ Len(memory) = 8 + k)

(* C6 witness: a run has written beyond the tape and read the value back *)
C6_Witness ==
    /\ FirstRun
    /\ program = <<1101, 1, 2, 7 + MaxFar, 4, 7 + MaxFar, 99>>
    /\ last.t = "CatchFire"
    /\ outputs = <<3>>
    /\ Len(memory) > Len(program) + 1

(* Only run_to_output has executed instructions *)
RunToOutputOnly ==
    drivers \subseteq {"run_to_output", "add_input", "failed", "after_error"}

(* C7: run_to_output returns the outputs one per call in execution order:    *)
(* each successful call adds exactly the returned value to the log, so after *)
(* k successful calls the log holds the k returned values in order; a call   *)
(* that reaches a Halt returns CatchFire.                                    *)
C7_OutputPerCall ==
    /\ RunToOutputOnly => outputs = returned
    /\ (last.op = "run_to_output" /\ last.t = "Ok") =>
        outputs = Append(last.pre.outputs, last.v)
    /\ (last.op = "run_to_output" /\ last.path # <<>>
            /\ WordAt(Pre(Len(last.path))) = 99) =>
        (last.t = "CatchFire" /\ outputs = last.pre.outputs)
    /\ (RunToOutputOnly /\ last.op = "run_to_output"
            /\ program = <<104, 1, 104, 2, 104, 3, 99>>) =>
        \/ last.t = "Ok" /\ Len(returned) <= 3
            /\ returned = SubSeq(<<1, 2, 3>>, 1, Len(returned))
        \/ last.t = "CatchFire" /\ returned = <<1, 2, 3>>

(* C7 witness: three calls returned 1, 2, 3 and the fourth CatchFire *)
C7_Witness ==
    /\ RunToOutputOnly
    /\ program = <<104, 1, 104, 2, 104, 3, 99>>
    /\ last.op = "run_to_output"
    /\ last.t = "CatchFire"
    /\ returned = <<1, 2, 3>>
    /\ outputs = <<1, 2, 3>>

(* run_to_output was called until it returned its first error, and nothing   *)
(* else was called since the first of these calls                            *)
DrivenToError ==
    /\ last.op = "run_to_output"
    /\ last.t \in Errors
    /\ drivers = {"run_to_output", "failed"}

(* C8: driving a process by run_to_output calls until one returns an error   *)
(* ends with the error, cursor, memory, relative base, input queue and       *)
(* output log of a single run() on the process as initialised.               *)
C8_Suspension ==
    DrivenToError =>
        LET r == run(origin, MaxSteps)
        IN  /\ r.t = last.t
            /\ r.v = last.v
            /\ r.vm = self

(* C8 witness: a process with queued inputs suspended at two outputs and     *)
(* then halted                                                               *)
C8_Witness ==
    /\ DrivenToError
    /\ last.t = "CatchFire"
    /\ Len(returned) >= 2
    /\ taken # <<>>

(* C9: the k-th Input instruction executed stores the k-th value passed to   *)
(* add_input at its destination and takes it from the front of the queue;    *)
(* an Output instruction appends its operand's value to the output log.      *)
C9_Fifo ==
    /\ Len(taken) <= Len(fed)
    /\ taken = SubSeq(fed, 1, Len(taken))
    /\ \A i \in LastSteps :
        LET p == Pre(i)
            q == Post(i)
            d == Dec(i)
        IN  /\ (d.ok /\ d.op = "Input" /\ IsOk(Res(i))) =>
                /\ q.inputs = Tail(p.inputs)
                /\ Cell(q.memory, InputTarget(p)) = Head(p.inputs)
                /\ q.outputs = p.outputs
            /\ (d.ok /\ d.op = "Output" /\ IsOk(Res(i))) =>
                /\ q.outputs = Append(p.outputs, InValue(p, d.in0, 1))
                /\ q.inputs = p.inputs
    /\ (FirstRun /\ last.t = "CatchFire" /\ fed = <<421>>
            /\ program = <<3, 5, 4, 5, 99, 0>>) =>
        (load(self, 5).v = 421 /\ outputs = <<421>>)

(* C9 witness: two inputs were stored and output in the order they were fed *)
C9_Witness ==
    /\ program = <<3, 9, 4, 9, 3, 10, 4, 10, 99, 0, 0>>
    /\ fed = <<421, 500>>
    /\ taken = <<421, 500>>
    /\ outputs = <<421, 500>>
    /\ memory[10] = 421 /\ memory[11] = 500

(* C10: an Input instruction executed on an empty queue returns              *)
(* NoInputAvailable and leaves cursor, memory, relative base, input queue    *)
(* and output log as they were; nothing else returns NoInputAvailable.       *)
C10_NoInput ==
    \A i \in LastSteps :
        LET p == Pre(i)
            d == Dec(i)
            empty == d.ok /\ d.op = "Input" /\ p.inputs = <<>>
        IN  /\ empty => (Res(i).t = "NoInputAvailable" /\ Post(i) = p)
            /\ Res(i).t = "NoInputAvailable" => empty

(* C10 witness: a run consumed an input, produced an output and then failed  *)
(* at its second Input instruction                                           *)
C10_Witness ==
    /\ last.op = "run"
    /\ last.t = "NoInputAvailable"
    /\ taken # <<>>
    /\ outputs # <<>>
    /\ instruction_counter > 0

---------------------------------------------------------------------------
(* Retry after NoInputAvailable, and Halt *)

(* The driver of the retried call, applied to the process as it was before   *)
(* the failed call with the value queued beforehand                         *)
QueuedBefore ==
    IF retry.op = "run"
    THEN run(add_input(retry.pre, retry.x), MaxSteps)
    ELSE run_to_output(add_input(retry.pre, retry.x), MaxSteps)

Retried == retry.stage = 2 /\ ~Blocked

(* C11: after run() or run_to_output() returned NoInputAvailable, add_input  *)
(* of v and the same driver call again resume at the Input instruction that  *)
(* failed, take v from the queue (and store it at the instruction's target   *)
(* when the step succeeds), and end with the result, memory, cursor,         *)
(* relative base, queue and output log that the driver gives on the process  *)
(* as it was before the first call with v queued beforehand.                 *)
C11_Retry ==
    Retried =>
        /\ last.op = retry.op
        /\ last.pre.inputs = <<retry.x>>
        /\ Dec(1).ok /\ Dec(1).op = "Input"
        /\ Res(1).t # "NoInputAvailable"
        /\ Post(1).inputs = <<>>
        /\ IsOk(Res(1)) =>
            /\ Cell(Post(1).memory, InputTarget(Pre(1))) = retry.x
            /\ Post(1).instruction_counter = Pre(1).instruction_counter + 2
        /\ QueuedBefore.vm = self
        /\ QueuedBefore.t = last.t
        /\ QueuedBefore.v = last.v

(* C11 witness: a run that had consumed one input and produced an output     *)
(* failed at its second Input instruction, was retried after add_input and   *)
(* reached the Halt                                                          *)
C11_Witness ==
    /\ Retried
    /\ retry.op = "run"
    /\ retry.pre.inputs # <<>>
    /\ last.t = "CatchFire"
    /\ Len(outputs) = 2
    /\ taken = fed

Executions == {"step", "run", "run_to_output"}

(* C12: a step at a Halt word returns CatchFire and leaves cursor, memory,   *)
(* relative base, input queue and output log as they were; only a Halt       *)
(* returns CatchFire; once an execution call has returned CatchFire every    *)
(* later step, run and run_to_output call returns CatchFire and changes      *)
(* nothing.                                                                  *)
C12_Halt ==
    /\ \A i \in LastSteps :
        /\ (Dec(i).ok /\ Dec(i).op = "Halt") =>
            /\ Res(i).t = "CatchFire"
            /\ Post(i) = Pre(i)
            /\ i = Len(last.path)
        /\ Res(i).t = "CatchFire" => (Dec(i).ok /\ Dec(i).op = "Halt")
    /\ (halted > 0 /\ last.op \in Executions) => last.t = "CatchFire"
    /\ (halted = 2 /\ last.op \in Executions) =>
        (self = last.pre /\ Len(last.path) = 1)

(* C12 witness: a process that had produced output and halted was given an   *)
(* input and run again, and returned CatchFire again                         *)
C12_Witness ==
    /\ halted = 2
    /\ last.op = "run"
    /\ last.t = "CatchFire"
    /\ inputs # <<>>
    /\ outputs # <<>>
    /\ instruction_counter > 0

---------------------------------------------------------------------------
(* Parameter modes *)

(* The number of parameter words of an instruction *)
Arity(d) ==
    CASE d.op \in {"Add", "Mul", "LessThan", "Equals"} -> 3
      [] d.op \in {"JumpIfTrue", "JumpIfFalse"} -> 2
      [] d.op \in {"Input", "Output", "RelativeMode"} -> 1
      [] OTHER -> 0

(* The addresses a step at p touches: the instruction word, its parameter    *)
(* words and the cells its position and relative parameters refer to        *)
Touched(p, d) ==
    { p.instruction_counter + k : k \in 0..Arity(d) }
        \cup ReadAddresses(p, d) \cup WriteAddresses(p, d)

MaxOf(S) == CHOOSE x \in S : \A y \in S : y <= x

HasImmediate(d) == d.ok /\ (d.in0 = "Immediate" \/ d.in1 = "Immediate")

(* The cursor after a successful step *)
NextCursor(p, d) ==
    LET x == InValue(p, d.in0, 1)
    IN  IF \/ d.op = "JumpIfTrue" /\ x # 0
           \/ d.op = "JumpIfFalse" /\ x = 0
        THEN InValue(p, d.in1, 2)
        ELSE p.instruction_counter + Arity(d) + 1

(* C13: an immediate input parameter yields the operand word itself: the     *)
(* instruction computes with it (the stored value, the output, the jump      *)
(* condition and target, the relative-base adjustment), a Segfault of the    *)
(* step carries the negative address of one of its position or relative      *)
(* parameters and never the immediate operand, and a successful step grows   *)
(* the tape just far enough for the words and addressed cells it touches;    *)
(* [1101,10,20,5,99,0] after run() has load(5) = 30.                         *)
C13_Immediate ==
    /\ \A i \in LastSteps :
        LET p == Pre(i)
            q == Post(i)
            d == Dec(i)
        IN  HasImmediate(d) =>
            /\ Res(i).t \in {"OkNone", "OkSome", "Segfault"}
            /\ Res(i).t = "Segfault" =>
                /\ Res(i).v < 0
                /\ Res(i).v \in ReadAddresses(p, d) \cup WriteAddresses(p, d)
            /\ (\A a \in ReadAddresses(p, d) \cup WriteAddresses(p, d) : a >= 0)
                => IsOk(Res(i))
            /\ IsOk(Res(i)) =>
                /\ Len(q.memory) = Max(Len(p.memory), MaxOf(Touched(p, d)) + 1)
                /\ q.instruction_counter = NextCursor(p, d)
                /\ \A w \in WriteAddresses(p, d) :
                    Cell(q.memory, w) = Written(p, d)
                /\ d.op = "Output" =>
                    (Res(i).v = Operand(p, 1)
                        /\ q.outputs = Append(p.outputs, Operand(p, 1)))
                /\ d.op = "RelativeMode" =>
                    q.relative_base = p.relative_base + Operand(p, 1)
    /\ (FirstRun /\ program = <<1101, 10, 20, 5, 99, 0>>) =>
        /\ last.t = "CatchFire"
        /\ load(self, 5).t = "Ok" /\ load(self, 5).v = 30
        /\ Len(memory) = 6

(* C13 witness: an instruction with a negative immediate operand and an      *)
(* immediate operand beyond the tape succeeded and left the tape's length    *)
C13_Witness ==
    /\ last.op = "step"
    /\ HasImmediate(Dec(1))
    /\ Dec(1).op = "Mul"
    /\ Dec(1).in0 = "Immediate" /\ Dec(1).in1 = "Immediate"
    /\ Operand(Pre(1), 1) < 0
    /\ Operand(Pre(1), 2) > Len(memory)
    /\ last.t = "OkNone"
    /\ Len(memory) = Len(program)

(* The sum of the operand values of the RelativeMode instructions that the  *)
(* steps i.. of the last call executed, each operand resolved against the    *)
(* process as it was before its instruction                                  *)
RECURSIVE Adjustments(_)
Adjustments(i) ==
    IF i > Len(last.path) THEN 0
    ELSE (IF Dec(i).ok /\ Dec(i).op = "RelativeMode" /\ IsOk(Res(i))
          THEN InValue(Pre(i), Dec(i).in0, 1) ELSE 0) + Adjustments(i + 1)

MovingProgram ==
    <<109, 13, 109, 2, 204, 0, 9, 18, 204, 0, 209, 3, 204, -1, 99,
      1015, 1016, 1017, 1, 2>>

AddressSeq(p, d) ==
    (IF Addressed(d.in0) THEN <<Effective(p, d.in0, 1)>> ELSE <<>>)
        \o (IF Addressed(d.in1) THEN <<Effective(p, d.in1, 2)>> ELSE <<>>)
        \o (IF Addressed(d.out) THEN <<Effective(p, d.out, OutK(d))>> ELSE <<>>)

Negatives(sq) == SelectSeq(sq, LAMBDA a : a < 0)

(* C15: a relative parameter refers to the cell at operand + relative_base   *)
(* and a position parameter to the cell at the operand, for the reads of     *)
(* input parameters and for the writes of Add, Mul, LessThan, Equals and     *)
(* Input alike, negative operands included: the step reads and writes those  *)
(* cells and no others, and it fails with Segfault exactly when one of these *)
(* addresses is negative, reporting the first such address.                  *)
C15_Effective ==
    /\ \A i \in LastSteps :
        LET p == Pre(i)
            q == Post(i)
            d == Dec(i)
            addresses == AddressSeq(p, d)
            starved == d.op = "Input" /\ p.inputs = <<>>
        IN  (d.ok /\ ~starved) =>
            /\ Negatives(addresses) # <<>> =>
                (Res(i).t = "Segfault" /\ Res(i).v = Head(Negatives(addresses)))
            /\ Negatives(addresses) = <<>> => Res(i).t # "Segfault"
            /\ IsOk(Res(i)) =>
                /\ \A w \in WriteAddresses(p, d) :
                    Cell(q.memory, w) = Written(p, d)
                /\ \A a \in 0..(Len(q.memory) - 1) :
                    a \notin WriteAddresses(p, d) =>
                        Cell(q.memory, a) = Cell(p.memory, a)
                /\ d.op = "Output" =>
                    /\ Res(i).v = InValue(p, d.in0, 1)
                    /\ q.outputs = Append(p.outputs, InValue(p, d.in0, 1))
                /\ q.instruction_counter = NextCursor(p, d)
    /\ (FirstRun /\ program = <<109, 9, 204, 0, 204, 1, 204, -1, 99, 100, 101>>) =>
        (last.t = "CatchFire" /\ outputs = <<100, 101, 99>>)
    /\ (program = <<109, 9, 203, 0, 203, 1, 203, -4, 99, 0, 0>> /\ Len(taken) = 2) =>
        (memory[10] = fed[1] /\ memory[11] = fed[2])

(* C15 witness: an Input in relative mode with a negative operand stored the *)
(* value it was fed at operand + relative_base                               *)
C15_Witness ==
    /\ program = <<109, 3, 203, -2, 99, 55, 66>>
    /\ last.op = "run"
    /\ last.t = "CatchFire"
    /\ relative_base = 3
    /\ taken = <<500>>
    /\ memory = <<109, 500, 203, -2, 99, 55, 66>>

---------------------------------------------------------------------------
(* Decoding *)

Abs(x) == IF x >= 0 THEN x ELSE -x

(* The two low decimal digits of a word *)
LowDigits(w) == Abs(w) % 100

Digit(w, k) == (w \div pow10(k)) % 10

(* The digits of the input and of the output parameters of an opcode *)
InputDigits(code) ==
    CASE code \in {1, 2, 5, 6, 7, 8} -> {2, 3}
      [] code \in {4, 9} -> {2}
      [] OTHER -> {}

OutputDigits(code) ==
    CASE code \in {1, 2, 7, 8} -> {4}
      [] code = 3 -> {2}
      [] OTHER -> {}

ValidOpcode(w) == w > 0 /\ LowDigits(w) \in (1..9) \cup {99}

BadMode(w) ==
    \/ \E k \in InputDigits(LowDigits(w)) : Digit(w, k) \notin {0, 1, 2}
    \/ \E k \in OutputDigits(LowDigits(w)) : Digit(w, k) \notin {0, 2}

---------------------------------------------------------------------------
(* The quine *)

(* C18: the quine run with no input returns CatchFire with an output log     *)
(* equal to the program, element for element and in order; however it is     *)
(* driven, its log is at every moment the program's first words, and the     *)
(* whole program once CatchFire was returned.                                *)
C18_Quine ==
    program = Quine =>
        /\ Len(outputs) <= Len(program)
        /\ outputs = SubSeq(program, 1, Len(outputs))
        /\ (last.op = "run" /\ ~Blocked) => last.t = "CatchFire"
        /\ (last.op \in Executions /\ last.t = "CatchFire") =>
            /\ outputs = Quine
            /\ inputs = <<>> /\ fed = <<>>
            /\ instruction_counter = 15
        /\ (last.op \in Executions /\ ~Blocked) => last.t \in {"CatchFire", "Ok", "OkNone", "OkSome"}

(* C18 witness: one run of the quine from its start has halted with the      *)
(* program as its output log                                                 *)
C18_Witness ==
    /\ program = Quine
    /\ FirstRun
    /\ last.t = "CatchFire"
    /\ outputs = <<109, 1, 204, -1, 1001, 100, 1, 100, 1008, 100, 16, 101, 1006, 101, 0, 99>>
    /\ Len(last.path) = 81

---------------------------------------------------------------------------
(* Arithmetic at the width of isize *)

(* The value of an input parameter in position or immediate mode *)
WideValue(p, mode, k) ==
    IF mode = "Immediate" THEN At(p.memory, p.instruction_counter + k)
    ELSE At(p.memory, ToInt(At(p.memory, p.instruction_counter + k)))

LargeMultProgram ==
    <<FromInt(1102), LargeMult, LargeMult, FromInt(7), FromInt(4), FromInt(7),
      FromInt(99), FromInt(0)>>

LargeNumberProgram == <<FromInt(104), LargeNumber, FromInt(99)>>

LargeProduct == FromDecimal(<<1, 2, 1, 9, 0, 7, 0, 6, 3, 2, 3, 9, 6, 8, 6, 4>>)

Beyond32(a) == a # SignExtend(Low(a, 4), IsizeBytes)

(* C19: Add and Mul store, and Output logs and returns, the exact 64-bit     *)
(* value, nothing cut to a narrower width: whenever the sum or product of    *)
(* the operands is a 64-bit signed value the step succeeds and stores        *)
(* exactly it (beyond that range the step stores the low 64 bits or, with    *)
(* overflow checks, panics); Mul of 34915192 by 34915192 outputs             *)
(* 1219070632396864 and an immediate Output of 1125899906842624 outputs      *)
(* 1125899906842624.                                                         *)
C19_Exact ==
    /\ \A i \in LastSteps :
        LET p == Pre(i)
            q == Post(i)
            word == At(p.memory, p.instruction_counter)
            d == decode(ToInt(word))
            x == WideValue(p, d.in0, 1)
            y == WideValue(p, d.in1, 2)
            exact == IF d.op = "Mul" THEN ExactProduct(x, y, 2 * IsizeBytes)
                     ELSE ExactSum(x, y)
            target == ToInt(At(p.memory, p.instruction_counter + 3))
        IN  /\ IsSmall(word) /\ d.ok
            /\ d.op \in {"Add", "Mul"} =>
                /\ Fits(exact) =>
                    /\ IsOk(Res(i))
                    /\ SignExtend(At(q.memory, target), 2 * IsizeBytes) = exact
                /\ IsOk(Res(i)) => At(q.memory, target) = Low(exact, IsizeBytes)
                /\ ~IsOk(Res(i)) => (Res(i).t = "Panic" /\ ~Fits(exact))
            /\ d.op = "Output" =>
                /\ Res(i).t = "OkSome" /\ Res(i).v = x
                /\ q.outputs = Append(p.outputs, x)
    /\ Len(memory) = Len(program)
    /\ (FirstRun /\ program = LargeMultProgram) =>
        (last.t = "CatchFire" /\ outputs = <<LargeProduct>>)
    /\ (FirstRun /\ program = LargeNumberProgram) =>
        (last.t = "CatchFire" /\ outputs = <<LargeNumber>>)

(* C19 witness: the run of test_day_large_mult has output a product beyond   *)
(* 32 bits                                                                   *)
C19_Witness ==
    /\ FirstRun
    /\ program = LargeMultProgram
    /\ last.t = "CatchFire"
    /\ outputs = <<LargeProduct>>
    /\ memory[8] = LargeProduct
    /\ Beyond32(LargeProduct)
    /\ Fits(ExactProduct(LargeMult, LargeMult, 2 * IsizeBytes))

---------------------------------------------------------------------------
(* Propagation of errors by the drivers *)

Returned == last.op \in Drivers /\ ~Blocked

(* C20: run() and run_to_output() stop at the first step that returns an     *)
(* error and return that error, with the process as that step left it: no    *)
(* step before the last one of a call failed and none follows the failure;   *)
(* run() returns an error, never Ok; run_to_output() returns Ok(v) exactly   *)
(* when its last step executed an Output instruction that produced v, and no *)
(* earlier step of the call produced an output.                              *)
C20_FirstError ==
    Returned =>
        LET n == Len(last.path)
        IN  /\ n >= 1
            /\ \A i \in 1..(n - 1) : IsOk(Res(i))
            /\ self = step(Pre(n)).vm
            /\ last.op = "run" =>
                /\ last.t \in Errors
                /\ Res(n).t = last.t /\ Res(n).v = last.v
            /\ last.op = "run_to_output" =>
                /\ \A i \in 1..(n - 1) : Res(i).t = "OkNone"
                /\ last.t \in Errors \cup {"Ok"}
                /\ last.t \in Errors => (Res(n).t = last.t /\ Res(n).v = last.v)
                /\ last.t = "Ok" <=> (Dec(n).ok /\ Dec(n).op = "Output" /\ IsOk(Res(n)))
                /\ last.t = "Ok" =>
                    /\ Res(n).t = "OkSome" /\ Res(n).v = last.v
                    /\ outputs = Append(Pre(n).outputs, last.v)

(* C20 witness: a run failed at its second instruction with Segfault and     *)
(* stopped there, before the Halt                                            *)
C20_Witness ==
    /\ Returned
    /\ last.op = "run"
    /\ last.t = "Segfault"
    /\ Len(last.path) = 2
    /\ instruction_counter = 2
    /\ WordAt(self) = 204
    /\ halted = 0

---------------------------------------------------------------------------
(* Two amplifiers of day-07: process_a and process_b are created from two    *)
(* clones of the program.  A Vec<isize> is the buffer it owns on the heap;   *)
(* a process reads and writes its memory through its own Vec.                *)

Amplifiers == {"a", "b"}

(* The calls on the single process of the other specifications *)
single == <<memory, instruction_counter, relative_base, inputs, outputs,
            last, program, fed, taken, returned, drivers, origin, stores, steps,
            retry, halted>>

(* Vec::clone that hands out the buffer it was given *)
clone_sharing(h, vec) == [heap |-> h, vec |-> vec]

(* Vec::clone: a new buffer with the contents of the old one *)
clone(h, vec) == [heap |-> Append(h, h[vec]), vec |-> Len(h) + 1]

(* The process behind process_a or process_b, with the contents of its Vec *)
Owned(h, ps, k) == [ps[k] EXCEPT !.memory = h[ps[k].memory]]

(* A feedback amplifier that adds 1 to each signal it reads; programs after  *)
(* the tests of intcode/src/lib.rs: one that moves the relative base, writes *)
(* its input beyond the tape and outputs twice, test_input_output and the    *)
(* first of test_cases                                                       *)
AmplifierPrograms ==
    { <<3, 11, 1001, 11, 1, 11, 4, 11, 1105, 1, 0, 0>>,
      <<109, 9, 204, 0, 203, 1, 204, 1, 99, 100>>,
      <<3, 5, 4, 5, 99, 0>>,
      <<1, 0, 0, 0, 99>> }

AmplifierAddresses == {-1, 0, 5}

(* Steps enough for a driver call to return, whatever was fed before it *)
AmplifierFuel == MaxSteps + 4 * MaxCalls

InitAmplifiers ==
    /\ Created(AmplifierPrograms)
    /\ LET cloned_a == clone(<<program>>, 1)
           cloned_b == clone(cloned_a.heap, 1)
       IN  /\ heap = cloned_b.heap
           /\ processes = [k \in Amplifiers |->
                            from_vec(IF k = "a" THEN cloned_a.vec ELSE cloned_b.vec)]
           /\ acted = [who |-> "none", op |-> "from_vec", heap |-> cloned_b.heap,
                       processes |-> [k \in Amplifiers |->
                            from_vec(IF k = "a" THEN cloned_a.vec ELSE cloned_b.vec)],
                       n |-> 0, t |-> "Ok", v |-> 0, path |-> <<>>]
           /\ feedback = NoFeedback
           /\ intcode = NoIntcode

(* A call on amplifier k (&mut self): r is the process after it, with the    *)
(* contents of its memory, and the Result; path lists the steps of the call  *)
Called(k, op, r, path) ==
    /\ acted.n < MaxCalls
    /\ r.t # "Running"
    /\ heap' = [heap EXCEPT ![processes[k].memory] = r.vm.memory]
    /\ processes' = [processes EXCEPT ![k] = [r.vm EXCEPT !.memory = processes[k].memory]]
    /\ acted' = [who |-> k, op |-> op, heap |-> heap, processes |-> processes,
                 n |-> acted.n + 1, t |-> r.t, v |-> r.v, path |-> path]
    /\ UNCHANGED <<single, feedback, intcode>>

AmplifierStep ==
    \E k \in Amplifiers :
        Called(k, "step", step(Owned(heap, processes, k)),
               <<Ret(Owned(heap, processes, k), step(Owned(heap, processes, k)))>>)

AmplifierRun ==
    \E k \in Amplifiers :
        LET r == run(Owned(heap, processes, k), AmplifierFuel)
        IN  Called(k, "run", r, r.path)

AmplifierRunToOutput ==
    \E k \in Amplifiers :
        LET r == run_to_output(Owned(heap, processes, k), AmplifierFuel)
        IN  Called(k, "run_to_output", r, r.path)

AmplifierAddInput ==
    \E k \in Amplifiers, value \in InputValues :
        Called(k, "add_input", Ret(add_input(Owned(heap, processes, k), value), Ok(0)),
               <<>>)

(* process_b.add_input(output_a): the caller copies the last output of one   *)
(* amplifier into the queue of the other                                     *)
AmplifierForward ==
    \E k \in Amplifiers, j \in Amplifiers :
        /\ k # j
        /\ processes[j].outputs # <<>>
        /\ Called(k, "forward",
                  Ret(add_input(Owned(heap, processes, k),
                                processes[j].outputs[Len(processes[j].outputs)]), Ok(0)),
                  <<>>)

AmplifierStore ==
    \E k \in Amplifiers, address \in AmplifierAddresses, value \in StoreValues :
        Called(k, "store", store(Owned(heap, processes, k), address, value), <<>>)

AmplifierLoad ==
    \E k \in Amplifiers, address \in AmplifierAddresses :
        Called(k, "load", load(Owned(heap, processes, k), address), <<>>)

Accessors == {"instruction_counter", "relative_base"}

AmplifierInspect ==
    \E k \in Amplifiers, accessor \in Accessors :
        Called(k, accessor,
               IF accessor = "instruction_counter"
               THEN instruction_counter_read(Owned(heap, processes, k))
               ELSE relative_base_read(Owned(heap, processes, k)), <<>>)

NextAmplifiers ==
    \/ AmplifierStep \/ AmplifierRun \/ AmplifierRunToOutput
    \/ AmplifierAddInput \/ AmplifierForward \/ AmplifierStore
    \/ AmplifierLoad \/ AmplifierInspect

SpecAmplifiers == InitAmplifiers /\ [][NextAmplifiers]_vars

(* C21: two processes created from clones of the same program are            *)
(* independent: a step, run, run_to_output, add_input or store call on one   *)
(* leaves the cursor, memory, relative base, input queue and output log of   *)
(* the other as they were, and the program they were cloned from as well;    *)
(* each owns a buffer of its own.                                            *)
C21_Independent ==
    /\ \A k \in Amplifiers \ {acted.who} :
        LET now == Owned(heap, processes, k)
            before == Owned(acted.heap, acted.processes, k)
        IN  /\ now.instruction_counter = before.instruction_counter
            /\ now.memory = before.memory
            /\ now.relative_base = before.relative_base
            /\ now.inputs = before.inputs
            /\ now.outputs = before.outputs
    /\ processes["a"].memory # processes["b"].memory
    /\ heap[1] = program

(* C21 witness: after amplifier b had run on a forwarded signal, a store on  *)
(* amplifier a changed a's memory and b's memory is still as b left it       *)
C21_Witness ==
    /\ acted.who = "a"
    /\ acted.op = "store"
    /\ acted.t = "Ok"
    /\ Owned(heap, processes, "a").memory # Owned(acted.heap, acted.processes, "a").memory
    /\ Owned(heap, processes, "b").outputs # <<>>
    /\ Owned(heap, processes, "b").memory # program
    /\ Owned(heap, processes, "b").memory # Owned(heap, processes, "a").memory

---------------------------------------------------------------------------
(* The cursor, the jumps and the comparisons *)

Jumps == {"JumpIfTrue", "JumpIfFalse"}

(* The condition of a jump instruction holds *)
JumpTaken(p, d) ==
    \/ d.op = "JumpIfTrue" /\ InValue(p, d.in0, 1) # 0
    \/ d.op = "JumpIfFalse" /\ InValue(p, d.in0, 1) = 0

(* C22: a successful step moves the cursor by the width of its instruction:  *)
(* +4 for Add, Mul, LessThan and Equals, +2 for Input, Output and            *)
(* RelativeMode, +3 for a jump that is not taken; a taken jump sets the      *)
(* cursor to the value of its second operand and adds nothing.               *)
C22_CursorWidth ==
    \A i \in LastSteps :
        LET p == Pre(i)
            q == Post(i)
            d == Dec(i)
            moved == q.instruction_counter - p.instruction_counter
        IN  IsOk(Res(i)) =>
            /\ d.ok
            /\ d.op \in {"Add", "Mul", "LessThan", "Equals"} => moved = 4
            /\ d.op \in {"Input", "Output", "RelativeMode"} => moved = 2
            /\ (d.op \in Jumps /\ ~JumpTaken(p, d)) => moved = 3
            /\ (d.op \in Jumps /\ JumpTaken(p, d)) =>
                q.instruction_counter = InValue(p, d.in1, 2)
            /\ d.op # "Halt"

(* C22 witness: a run moved the cursor by 2, jumped from 2 to 12 and failed  *)
(* there                                                                     *)
C22_Witness ==
    /\ last.op = "run"
    /\ Len(last.path) = 3
    /\ Pre(2).instruction_counter = 2
    /\ Dec(2).op \in Jumps
    /\ JumpTaken(Pre(2), Dec(2))
    /\ Pre(3).instruction_counter = 12
    /\ instruction_counter = 12
    /\ last.t = "UnknownInstruction"

(* C23: JumpIfTrue sets the cursor to the value of its second operand        *)
(* exactly when the value of its first operand is non-zero, JumpIfFalse      *)
(* exactly when it is zero, and otherwise the cursor advances by 3; a jump   *)
(* instruction, taken or not, changes no cell of the memory (operands read   *)
(* beyond the tape's end extend it with zeros), nor the relative base, the   *)
(* input queue or the output log.                                            *)
C23_Jumps ==
    \A i \in LastSteps :
        LET p == Pre(i)
            q == Post(i)
            d == Dec(i)
            first == InValue(p, d.in0, 1)
            second == InValue(p, d.in1, 2)
        IN  (d.ok /\ d.op \in Jumps) =>
            /\ Res(i).t \in {"OkNone", "Segfault"}
            /\ (IsOk(Res(i)) /\ d.op = "JumpIfTrue") =>
                q.instruction_counter =
                    IF first # 0 THEN second ELSE p.instruction_counter + 3
            /\ (IsOk(Res(i)) /\ d.op = "JumpIfFalse") =>
                q.instruction_counter =
                    IF first = 0 THEN second ELSE p.instruction_counter + 3
            /\ ~IsOk(Res(i)) => q.instruction_counter = p.instruction_counter
            /\ SameTape(q.memory, p.memory)
            /\ q.relative_base = p.relative_base
            /\ q.inputs = p.inputs
            /\ q.outputs = p.outputs

(* C23 witness: a JumpIfTrue whose first operand lies beyond the tape read 0 *)
(* there and fell through, and a JumpIfFalse on a non-zero relative operand  *)
(* would fall through as well                                                *)
C23_Witness ==
    /\ last.op = "step"
    /\ Dec(1).ok /\ Dec(1).op = "JumpIfTrue"
    /\ Dec(1).in0 = "Position"
    /\ Operand(Pre(1), 1) >= Len(Pre(1).memory)
    /\ last.t = "OkNone"
    /\ instruction_counter = Pre(1).instruction_counter + 3
    /\ instruction_counter # InValue(Pre(1), Dec(1).in1, 2)
    /\ Len(memory) > Len(Pre(1).memory)
    /\ relative_base = 3

(* C24: LessThan stores 1 at its destination when first < second, compared   *)
(* as signed integers, and 0 otherwise; Equals stores 1 when first = second  *)
(* and 0 otherwise; no other cell changes, nor the relative base, the input  *)
(* queue or the output log.                                                  *)
C24_Comparisons ==
    \A i \in LastSteps :
        LET p == Pre(i)
            q == Post(i)
            d == Dec(i)
            first == InValue(p, d.in0, 1)
            second == InValue(p, d.in1, 2)
            destination == Effective(p, d.out, 3)
            holds == IF d.op = "LessThan" THEN first < second ELSE first = second
        IN  (d.ok /\ d.op \in {"LessThan", "Equals"} /\ IsOk(Res(i))) =>
            /\ destination >= 0
            /\ Len(q.memory) > destination
            /\ At(q.memory, destination) = (IF holds THEN 1 ELSE 0)
            /\ At(q.memory, destination) \in {0, 1}
            /\ \A a \in 0..(Len(q.memory) - 1) :
                a # destination => At(q.memory, a) = Cell(p.memory, a)
            /\ q.relative_base = p.relative_base
            /\ q.inputs = p.inputs
            /\ q.outputs = p.outputs

(* C24 witness: LessThan on a negative and a positive immediate operand      *)
(* stored 1 beyond the tape's end                                            *)
C24_Witness ==
    /\ last.op = "step"
    /\ Dec(1).ok /\ Dec(1).op = "LessThan"
    /\ InValue(Pre(1), Dec(1).in0, 1) < 0
    /\ InValue(Pre(1), Dec(1).in1, 2) > 0
    /\ last.t = "OkNone"
    /\ Effective(Pre(1), Dec(1).out, 3) >= Len(Pre(1).memory)
    /\ At(memory, Effective(Pre(1), Dec(1).out, 3)) = 1

(* C25: step returns Ok(Some(v)) exactly when the instruction it executed    *)
(* with success is an Output, and v is then the value it has just appended   *)
(* to the output log; every other successful step returns Ok(None), and      *)
(* every step that is not a successful Output leaves the log as it was.      *)
C25_OutputReported ==
    \A i \in LastSteps :
        LET p == Pre(i)
            q == Post(i)
            d == Dec(i)
            reported == Res(i).t = "OkSome"
        IN  /\ reported <=> (d.ok /\ d.op = "Output" /\ IsOk(Res(i)))
            /\ reported =>
                /\ q.outputs = Append(p.outputs, Res(i).v)
                /\ Res(i).v = InValue(p, d.in0, 1)
            /\ ~reported => q.outputs = p.outputs
            /\ IsOk(Res(i)) => Res(i).t \in {"OkNone", "OkSome"}
            /\ (last.op = "step" /\ reported) => (last.t = "OkSome" /\ last.v = Res(i).v)

(* C25 witness: a step executed an Output in relative mode and returned the  *)
(* value it logged                                                           *)
C25_Witness ==
    /\ last.op = "step"
    /\ last.t = "OkSome"
    /\ Dec(1).op = "Output" /\ Dec(1).in0 = "Relative"
    /\ last.v # Operand(Pre(1), 1)
    /\ outputs = <<last.v>>
    /\ last.v # 0

---------------------------------------------------------------------------
(* Decoding at the fetch *)

(* The word the program was loaded with at the cursor of p *)
LoadedWord(p) == Cell(program, p.instruction_counter)

SelfModified == <<1, 1, 1, 4, 99, 5, 6, 0, 99>>

(* C26: a word is decoded when the cursor reaches it, as the memory holds it *)
(* then: a step returns UnknownInstruction exactly when the word at the      *)
(* cursor is no instruction at that moment, whatever the program was loaded  *)
(* with there and whatever other words the tape holds, and a word that an    *)
(* earlier instruction overwrote is executed as its new value;               *)
(* [1,1,1,4,99,5,6,0,99] turns the 99 at address 4 into 2 and executes it as *)
(* Mul, and a word that is no instruction and is never reached is no error.  *)
C26_LazyDecode ==
    /\ \A i \in LastSteps :
        LET p == Pre(i)
            q == Post(i)
            w == WordAt(p)
        IN  /\ Res(i).t = "UnknownInstruction" <=> ~decode(w).ok
            /\ Res(i).t = "UnknownInstruction" => Res(i).v = w
            /\ IsOk(Res(i)) =>
                q.instruction_counter = NextCursor(p, decode(w))
            /\ w = 99 => Res(i).t = "CatchFire"
            /\ (w = 2 /\ Res(i).t = "OkNone") =>
                Cell(q.memory, Operand(p, 3))
                    = Cell(p.memory, Operand(p, 1)) * Cell(p.memory, Operand(p, 2))
    /\ (last.op \in Executions /\ last.t = "UnknownInstruction") =>
        (last.v = WordAt(self) /\ ~decode(WordAt(self)).ok)
    /\ (FirstRun /\ program = SelfModified) =>
        /\ last.t = "CatchFire"
        /\ Len(last.path) = 3
        /\ LoadedWord(Pre(2)) = 99 /\ WordAt(Pre(2)) = 2
        /\ Dec(2).op = "Mul"
        /\ memory = <<30, 1, 1, 4, 2, 5, 6, 0, 99>>
    /\ (FirstRun /\ program \in { <<1105, 1, 4, 98, 99>>, <<104, 5, 99, 77777>>,
                                  <<99, 98, -5, 302>> }) =>
        last.t = "CatchFire"

(* C26 witness: a word that was no instruction when the program was loaded   *)
(* was overwritten by a Mul before the cursor reached it, and the run went   *)
(* through it to the Halt while the tape still held a word that is no        *)
(* instruction                                                               *)
C26_Witness ==
    /\ FirstRun
    /\ last.t = "CatchFire"
    /\ Len(last.path) = 3
    /\ ~decode(LoadedWord(Pre(2))).ok
    /\ WordAt(Pre(2)) = 2
    /\ Res(2).t = "OkNone"
    /\ \E a \in 1..Len(memory) : ~decode(memory[a]).ok

---------------------------------------------------------------------------
(* The frame of the calls on a process: output log, relative base, cursor *)

(* The process the last call was made on, before and after the call, and the *)
(* steps of the call                                                         *)
Callee == IF acted.who \in Amplifiers THEN acted.who ELSE "a"
CalleeBefore == Owned(acted.heap, acted.processes, Callee)
CalleeAfter == Owned(heap, processes, Callee)
CalleeSteps == 1..Len(acted.path)
StepBefore(i) == acted.path[i].vm
StepAfter(i) == After(acted.path, CalleeAfter, i)
StepDecoded(i) == decode(WordAt(StepBefore(i)))

IsPrefix(a, b) == Len(a) <= Len(b) /\ a = SubSeq(b, 1, Len(a))

(* The steps of the last call that executed an Output instruction *)
OutputSteps ==
    { i \in CalleeSteps :
        /\ StepDecoded(i).ok
        /\ StepDecoded(i).op = "Output"
        /\ IsOk(acted.path[i]) }

CallerSide == {"add_input", "forward", "load", "store"} \cup Accessors

(* C27: the output log is append-only: after a step, run, run_to_output,     *)
(* add_input, load or store call, and after an accessor, the log as it was   *)
(* before the call is a prefix of the log after it, and the log has grown by *)
(* one entry for each Output instruction the call executed: by none in a     *)
(* caller-side call and in a step of any other instruction.                  *)
C27_AppendOnly ==
    /\ IsPrefix(CalleeBefore.outputs, CalleeAfter.outputs)
    /\ Len(CalleeAfter.outputs) = Len(CalleeBefore.outputs) + Cardinality(OutputSteps)
    /\ acted.op \in CallerSide => CalleeAfter.outputs = CalleeBefore.outputs
    /\ \A i \in CalleeSteps :
        /\ IsPrefix(StepBefore(i).outputs, StepAfter(i).outputs)
        /\ Len(StepAfter(i).outputs) =
            Len(StepBefore(i).outputs) + (IF i \in OutputSteps THEN 1 ELSE 0)

(* C27 witness: after one output, an add_input and a store by the caller, a  *)
(* run appended a second output to the log                                   *)
C27_Witness ==
    /\ acted.op = "run"
    /\ acted.t = "CatchFire"
    /\ Len(CalleeBefore.outputs) = 1
    /\ Len(CalleeAfter.outputs) = 2
    /\ Cardinality(OutputSteps) = 1
    /\ CalleeAfter.memory[1] = 99 /\ program[1] # 99

(* C28: the relative base and the cursor are 0 on construction; the relative *)
(* base changes only in a step that executes a RelativeMode instruction with *)
(* success, the cursor only in a step that succeeds; add_input, load, store  *)
(* and the accessors instruction_counter() and relative_base() change        *)
(* neither, and the accessors return them.                                   *)
C28_Frame ==
    /\ acted.op = "from_vec" =>
        \A k \in Amplifiers :
            processes[k].instruction_counter = 0 /\ processes[k].relative_base = 0
    /\ acted.op \in CallerSide =>
        /\ CalleeAfter.instruction_counter = CalleeBefore.instruction_counter
        /\ CalleeAfter.relative_base = CalleeBefore.relative_base
    /\ acted.op = "relative_base" => acted.v = CalleeAfter.relative_base
    /\ acted.op = "instruction_counter" =>
        as_isize(acted.v) = CalleeAfter.instruction_counter
    /\ \A i \in CalleeSteps :
        LET p == StepBefore(i)
            q == StepAfter(i)
            d == StepDecoded(i)
        IN  /\ q.relative_base # p.relative_base =>
                (d.ok /\ d.op = "RelativeMode" /\ IsOk(acted.path[i]))
            /\ q.instruction_counter # p.instruction_counter => IsOk(acted.path[i])

(* C28 witness: with the relative base and the cursor moved by a run that    *)
(* stopped for input, a store by the caller succeeded and left both          *)
C28_Witness ==
    /\ acted.op = "store"
    /\ acted.t = "Ok"
    /\ CalleeAfter.memory # CalleeBefore.memory
    /\ CalleeAfter.relative_base = 9
    /\ CalleeAfter.instruction_counter = 4
    /\ CalleeAfter.outputs = <<100>>
    /\ CalleeAfter.inputs = <<>>

---------------------------------------------------------------------------
(* Negative addresses and the cursor *)

(* The parameters of an instruction in the order its handler resolves them:  *)
(* the offset of the parameter word from the cursor, and its mode            *)
Params(d) ==
    (IF d.in0 # NoMode THEN <<[k |-> 1, mode |-> d.in0]>> ELSE <<>>)
        \o (IF d.in1 # NoMode THEN <<[k |-> 2, mode |-> d.in1]>> ELSE <<>>)
        \o (IF d.out # NoMode THEN <<[k |-> OutK(d), mode |-> d.out]>> ELSE <<>>)

(* The parameter of the instruction at p refers to a negative address *)
Faulty(p, param) == Addressed(param.mode) /\ Effective(p, param.mode, param.k) < 0

(* The addresses a step at p has reached when it resolves its first          *)
(* parameter with a negative address, the n-th: the instruction word, the    *)
(* parameter words up to the n-th and the cells earlier parameters refer to  *)
ReachedBefore(p, d, n) ==
    {p.instruction_counter}
        \cup { p.instruction_counter + Params(d)[j].k : j \in 1..n }
        \cup { Effective(p, Params(d)[j].mode, Params(d)[j].k) :
                 j \in { h \in 1..(n - 1) : Addressed(Params(d)[h].mode) } }

(* C29: an instruction with a parameter whose effective address is negative  *)
(* (a position operand below 0, or a relative operand with operand +         *)
(* relative_base below 0) fails with Segfault carrying the effective address *)
(* of the first such parameter; a Segfault always carries a negative         *)
(* address; the failed step writes no cell, extends the tape no further than *)
(* the non-negative addresses it had reached before, and leaves the cursor,  *)
(* the relative base and the output log.                                     *)
C29_NegativeAddress ==
    \A i \in LastSteps :
        LET p == Pre(i)
            q == Post(i)
            d == Dec(i)
            params == Params(d)
            faulty == { n \in 1..Len(params) : Faulty(p, params[n]) }
            starved == d.op = "Input" /\ p.inputs = <<>>
        IN  /\ (d.ok /\ ~starved /\ faulty # {}) =>
                LET first == CHOOSE n \in faulty : \A m \in faulty : n <= m
                    address == Effective(p, params[first].mode, params[first].k)
                IN  /\ Res(i).t = "Segfault"
                    /\ Res(i).v = address
                    /\ params[first].mode = "Relative" =>
                        Res(i).v = Operand(p, params[first].k) + p.relative_base
                    /\ SameTape(q.memory, p.memory)
                    /\ Len(q.memory) =
                        Max(Len(p.memory), MaxOf(ReachedBefore(p, d, first)) + 1)
                    /\ q.instruction_counter = p.instruction_counter
                    /\ q.relative_base = p.relative_base
                    /\ q.outputs = p.outputs
            /\ Res(i).t = "Segfault" =>
                /\ Res(i).v < 0
                /\ i = Len(last.path)
                /\ last.t = "Segfault" /\ last.v = Res(i).v

(* C29 witness: a LessThan whose first parameter reads beyond the tape and   *)
(* whose write target is at operand + relative_base = -1 failed with         *)
(* Segfault(-1), and the tape was extended for the read alone                *)
C29_Witness ==
    /\ last.op = "run"
    /\ last.t = "Segfault"
    /\ last.v = -1
    /\ Len(last.path) = 2
    /\ Dec(2).out = "Relative"
    /\ Operand(Pre(2), 3) = -4
    /\ relative_base = 3
    /\ instruction_counter = 2
    /\ SameTape(memory, program)

(* The cursor of a process as the usize it is *)
Cursor(p) == as_usize(p.instruction_counter)

(* C30: the cursor is a usize, never below 0; a jump taken to a negative     *)
(* target stores the target's bytes, a cursor beyond every tape, and the     *)
(* next step executes nothing: it fails with Segfault carrying the negative  *)
(* target and changes nothing.                                               *)
C30_Cursor ==
    /\ Len(Cursor(self)) = IsizeBytes
    /\ \A k \in 1..IsizeBytes : Cursor(self)[k] \in 0..255
    /\ as_isize(Cursor(self)) = instruction_counter
    /\ BeyondAnyTape(Cursor(self)) <=> instruction_counter < 0
    /\ \A i \in LastSteps :
        LET p == Pre(i)
            q == Post(i)
            d == Dec(i)
            target == InValue(p, d.in1, 2)
        IN  /\ (p.instruction_counter >= 0 /\ d.ok /\ d.op \in Jumps
                    /\ JumpTaken(p, d) /\ IsOk(Res(i)) /\ target < 0) =>
                /\ Cursor(q) = as_usize(target)
                /\ BeyondAnyTape(Cursor(q))
                /\ step(q) = Ret(q, Segfault(target))
                /\ (last.op \in Drivers /\ ~Blocked) =>
                    /\ Len(last.path) = i + 1
                    /\ Res(i + 1).t = "Segfault" /\ Res(i + 1).v = target
                    /\ self = q
            /\ p.instruction_counter < 0 =>
                /\ Res(i).t = "Segfault" /\ Res(i).v = p.instruction_counter
                /\ q = p

(* C30 witness: a run took a jump to -2 and failed at its next step with     *)
(* Segfault(-2)                                                              *)
C30_Witness ==
    /\ last.op = "run"
    /\ last.t = "Segfault"
    /\ last.v = -2
    /\ Len(last.path) = 3
    /\ Dec(2).op \in Jumps
    /\ Res(2).t = "OkNone"
    /\ instruction_counter = -2
    /\ Cursor(self) = <<254, 255, 255, 255, 255, 255, 255, 255>>
    /\ memory = program

---------------------------------------------------------------------------
(* Failing steps *)

(* The steps of the last call that returned an error *)
FailedSteps == { i \in LastSteps : Res(i).t \in Errors }

(* C31: a step that returns UnknownInstruction, Segfault, NoInputAvailable   *)
(* or CatchFire leaves the cursor, the relative base and the output log as   *)
(* they were before the step; only a step that returns Ok moves any of the   *)
(* three.                                                                    *)
C31_FailedStepFrame ==
    \A i \in LastSteps :
        /\ i \in FailedSteps =>
            /\ Post(i).instruction_counter = Pre(i).instruction_counter
            /\ Post(i).relative_base = Pre(i).relative_base
            /\ Post(i).outputs = Pre(i).outputs
            /\ i = Len(last.path)
        /\ (\/ Post(i).instruction_counter # Pre(i).instruction_counter
            \/ Post(i).relative_base # Pre(i).relative_base
            \/ Post(i).outputs # Pre(i).outputs) => IsOk(Res(i))

(* C31 witness: after an output and an adjustment of the relative base a     *)
(* step failed on a word that is no instruction, having extended the tape    *)
(* for its fetch alone                                                       *)
C31_Witness ==
    /\ last.op = "step"
    /\ last.t = "UnknownInstruction"
    /\ outputs # <<>>
    /\ relative_base = 3
    /\ instruction_counter = 4
    /\ last.pre.instruction_counter = 4
    /\ last.pre.outputs = outputs

(* C32: whenever a step returns an error the input queue is as it was before *)
(* the step, also when an Input instruction fails with Segfault because its  *)
(* destination address is negative: no input value is lost.  input() pops    *)
(* the value before store_output resolves the destination, so the code does  *)
(* not keep this.                                                            *)
C32_NoInputLost ==
    \A i \in FailedSteps : Post(i).inputs = Pre(i).inputs

---------------------------------------------------------------------------
(* The time at which the inputs are queued *)

(* add_input called once for each of the values, in order *)
RECURSIVE Queued(_, _)
Queued(p, values) ==
    IF values = <<>> THEN p ELSE Queued(add_input(p, Head(values)), Tail(values))

(* step called n times on p, whatever it returns: the process after the     *)
(* calls and, for each call, the process before it and what it returned      *)
RECURSIVE Stepped(_, _, _)
Stepped(p, n, path) ==
    IF n = 0 THEN [vm |-> p, path |-> path]
    ELSE CHOOSE after \in
            { Stepped(result.vm, n - 1, Append(path, Ret(p, result))) :
                result \in {step(p)} } : TRUE

(* The input sequences that begin with the values queued so far *)
RECURSIVE Continuations(_)
Continuations(n) ==
    IF n = 0 THEN {<<>>}
    ELSE {<<>>} \cup { <<x>> \o rest : x \in InputValues, rest \in Continuations(n - 1) }

Planned == { fed \o rest : rest \in Continuations(MaxInputs - Len(fed)) }

(* The process created from the program with all of `planned` queued before  *)
(* the first step, stepped as often as the process has been                  *)
Upfront(planned) == Stepped(Queued(from_vec(program), planned), steps, <<>>)

ExecutionCalls == {"step", "run", "run_to_output"}

(* What the steps of the last call returned *)
LastResults ==
    IF last.op \in ExecutionCalls
    THEN [i \in 1..Len(last.path) |-> [t |-> last.path[i].t, v |-> last.path[i].v]]
    ELSE <<>>

(* Programs that read their inputs after other instructions, between        *)
(* outputs, in a loop and at a negative address                              *)
TimingPrograms ==
    { <<104, 7, 3, 11, 4, 11, 3, 12, 4, 12, 99>>,
      <<109, 9, 203, 0, 203, 1, 203, -4, 99, 0, 0>>,
      <<3, 0, 1105, 1, 0>>,
      <<1101, 1, 1, 7, 3, -1, 3, 0, 4, 0, 99>>,
      <<3, 11, 1005, 11, 6, 99, 3, 12, 204, 12, 99>> }

InitTiming == InitOf(TimingPrograms)

NextTiming == Step \/ Run \/ RunToOutput \/ AddInput

SpecTiming == InitTiming /\ [][NextTiming]_vars

(* The process p, with `queued` values passed to add_input, is where the     *)
(* process with `planned` queued up front is after n of its steps, the       *)
(* values not yet queued apart                                               *)
AgreesAt(p, queued, upfront, n, planned) ==
    LET there == After(upfront.path, upfront.vm, n)
    IN  /\ there.instruction_counter = p.instruction_counter
        /\ there.memory = p.memory
        /\ there.relative_base = p.relative_base
        /\ there.outputs = p.outputs
        /\ there.inputs = p.inputs \o SubSeq(planned, queued + 1, Len(planned))

(* The process agrees with the one fed up front, and the steps of its last   *)
(* call returned what the same steps returned there                          *)
AgreesWith(upfront, planned) ==
    /\ AgreesAt(self, Len(fed), upfront, steps, planned)
    /\ LastResults =
        [i \in 1..Len(LastResults) |->
            [t |-> upfront.path[steps - Len(LastResults) + i].t,
             v |-> upfront.path[steps - Len(LastResults) + i].v]]

(* The same before the last call *)
AgreedBefore(upfront, planned) ==
    AgreesAt(last.pre, IF last.op = "add_input" THEN Len(fed) - 1 ELSE Len(fed),
             upfront, steps - Len(LastResults), planned)

(* The last call was an execution call that found the queue empty *)
Starved == last.op \in ExecutionCalls /\ last.t = "NoInputAvailable"

(* C33: for any program and input sequence, a process fed by add_input at    *)
(* any points of its execution, each value before the Input instruction      *)
(* that consumes it is executed, returns at every step what the process      *)
(* with all the values queued before its first step returns, and has the     *)
(* same cursor, memory, relative base and output log: the two agree as long  *)
(* as no call has returned an error, and whenever they agreed before a call  *)
(* that did not find the queue empty they agree after it.                    *)
C33_QueueTiming ==
    \A planned \in Planned :
        LET upfront == Upfront(planned)
        IN  /\ "failed" \notin drivers => AgreesWith(upfront, planned)
            /\ (AgreedBefore(upfront, planned) /\ ~Starved) =>
                AgreesWith(upfront, planned)

(* C33 witness: two values were queued one at a time, each after the         *)
(* execution had begun and the second after the first was consumed and put   *)
(* out, and the program ran to its Halt with both in the output log          *)
C33_Witness ==
    /\ program = <<104, 7, 3, 11, 4, 11, 3, 12, 4, 12, 99>>
    /\ AgreesWith(Upfront(fed), fed)
    /\ fed = <<421, 500>>
    /\ outputs = <<7, 421, 500>>
    /\ last.t = "CatchFire"
    /\ origin.inputs = <<>>
    /\ "add_input" \in drivers
    /\ taken = fed

---------------------------------------------------------------------------
(* The growth of the tape *)

Writing == {"Add", "Mul", "Input", "LessThan", "Equals"}

(* The addresses at which the tape m2 reads otherwise than the tape m1 *)
Changed(m1, m2) ==
    { a \in 0..(Max(Len(m1), Len(m2)) - 1) : Cell(m1, a) # Cell(m2, a) }

(* C34: the tape never shrinks and grows only by zero-fill: no call makes    *)
(* the memory shorter, a cell a call adds to the tape holds 0 unless the     *)
(* call is a step whose instruction wrote it, a step changes no cell but     *)
(* the one its instruction writes, and a step that writes nothing (a fetch,  *)
(* a read through a position or relative operand) changes no cell value      *)
(* while it extends the tape to the furthest address it accessed + 1; the    *)
(* caller's load and store leave the length.                                 *)
C34_TapeGrowth ==
    /\ Len(memory) >= Len(last.pre.memory)
    /\ Len(memory) >= Len(program)
    /\ last.op = "load" => memory = last.pre.memory
    /\ last.op = "store" =>
        /\ Len(memory) = Len(last.pre.memory)
        /\ Changed(last.pre.memory, memory) \subseteq {last.a}
    /\ \A i \in LastSteps :
        LET p == Pre(i)
            q == Post(i)
            d == Dec(i)
            written == IF d.ok /\ d.op \in Writing /\ IsOk(Res(i))
                       THEN WriteAddresses(p, d) ELSE {}
            accessed == { a \in Touched(p, d) : a >= 0 } \cup {-1}
        IN  /\ Len(q.memory) >= Len(p.memory)
            /\ Changed(p.memory, q.memory) \subseteq written
            /\ \A a \in Len(p.memory)..(Len(q.memory) - 1) :
                a \notin written => At(q.memory, a) = 0
            /\ written = {} => SameTape(q.memory, p.memory)
            /\ IsOk(Res(i)) =>
                Len(q.memory) = Max(Len(p.memory), MaxOf(accessed) + 1)
            /\ Len(q.memory) <= Max(Len(p.memory), MaxOf(accessed) + 1)

(* C34 witness: an Output read a cell beyond the tape; the step extended the *)
(* tape to that address + 1 and every cell reads as before                   *)
C34_Witness ==
    /\ program = <<4, 3 + MaxFar, 99>>
    /\ last.op = "step"
    /\ last.t = "OkSome"
    /\ last.pre.memory = program
    /\ Len(memory) = 4 + MaxFar
    /\ SameTape(memory, program)
    /\ memory # program

---------------------------------------------------------------------------
(* The loop of run(), one iteration at a time *)

(* Programs without a Halt: an Add that writes a word ahead of or behind     *)
(* the cursor, then data or nothing; programs whose jump is or is not taken  *)
StraightPrograms ==
    { <<1101, x, 0, c>> \o rest :
        x \in {0, 4, 9, 104, 1101, 30}, c \in {0, 4, 5, 8},
        rest \in {<<>>, <<0, 0>>, <<109, 2, 204, 5>>, <<1, 0, 0>>} }
    \cup { <<1105, x, 0>> : x \in {0, 1} }
    \cup { <<1106, x, 4, 0, 104, 5>> : x \in {0, 1} }
    \cup { <<3, 0, 104, 1>>, <<104, 1, 99>>, <<1, 9, 10, 3, 2, 3, 11, 0, 99, 30, 40, 50>> }

InitStraight == InitOf(StraightPrograms)

(* `loop { self.step()?; }`: the next iteration, taken as long as step       *)
(* returned Ok                                                               *)
Iterate == IsOk(last) /\ Step

NextStraight == Iterate

(* An iteration as the step counter shows it: Iterate is the only action and *)
(* counts every step it makes                                                *)
Counted == IsOk(last) /\ steps < Budget /\ steps' = steps + 1

(* The loop goes on as long as it can: weak fairness of its iterations *)
SpecStraight == InitStraight /\ [][NextStraight]_vars /\ WF_steps(Counted)

(* The last iteration took a jump *)
Jumped ==
    /\ last.path # <<>>
    /\ IsOk(Res(1))
    /\ Dec(1).op \in Jumps
    /\ JumpTaken(Pre(1), Dec(1))

(* The loop has returned *)
Returned_from_loop == last.t \in Errors

(* In an iteration that took no jump the cursor went up if step returned Ok; *)
(* on a cell that reads 0, as every cell beyond the program does that no     *)
(* instruction wrote, also beyond the end of the tape, where the fetch       *)
(* zero-fills it, step returned UnknownInstruction(0) and no Segfault        *)
StraightStep ==
    \A i \in LastSteps :
        LET p == Pre(i)
            q == Post(i)
        IN  /\ (IsOk(Res(i)) /\ ~Jumped) =>
                /\ q.instruction_counter > p.instruction_counter
                /\ q.instruction_counter <= p.instruction_counter + 4
            /\ (p.instruction_counter >= 0 /\ WordAt(p) = 0) =>
                /\ Res(i).t = "UnknownInstruction" /\ Res(i).v = 0
                /\ q.instruction_counter = p.instruction_counter
            /\ p.instruction_counter >= Len(p.memory) =>
                /\ Res(i).t = "UnknownInstruction" /\ Res(i).v = 0
                /\ Len(q.memory) = p.instruction_counter + 1
                /\ SameTape(q.memory, p.memory)
            /\ (p.instruction_counter >= 0 /\ ~Jumped) => Res(i).t # "Segfault"
                \/ \E a \in ReadAddresses(p, Dec(i)) \cup WriteAddresses(p, Dec(i)) : a < 0

(* C35: run() terminates on every execution in which no jump is taken: each  *)
(* successful step then strictly increases the cursor, and on a cell that    *)
(* was never written, also off the end of the program where the fetch        *)
(* zero-fills the tape, the step fails with UnknownInstruction(0) rather     *)
(* than Segfault; so the loop returns unless an iteration takes a jump.      *)
C35_StraightRunTerminates ==
    /\ []StraightStep
    /\ <>(Returned_from_loop \/ Jumped)

(* C35 witness: the loop executed a word its first instruction had written   *)
(* beyond the program, ran on to a cell never written beyond the end of the  *)
(* tape and returned UnknownInstruction(0)                                   *)
C35_Witness ==
    /\ program = <<1101, 104, 0, 4>>
    /\ last.t = "UnknownInstruction"
    /\ last.v = 0
    /\ outputs = <<0>>
    /\ instruction_counter = 6
    /\ last.pre.instruction_counter = 6
    /\ Len(last.pre.memory) = 6
    /\ memory = <<1101, 104, 0, 4, 104, 0, 0>>

---------------------------------------------------------------------------
(* day-07: run_thrust_amplifiers_feedback *)

(* process_a .. process_e in the order of the loop body *)
Pipeline == <<"a", "b", "c", "d", "e">>

Feeders == {"a", "b", "c", "d", "e"}

Position(k) == CHOOSE i \in 1..Len(Pipeline) : Pipeline[i] = k

(* The amplifier whose output variable is passed on to itself *)
Upstream_self(k) == k

(* The amplifier whose output variable is passed to k's add_input *)
Upstream(k) == Pipeline[IF Position(k) = 1 THEN Len(Pipeline) ELSE Position(k) - 1]

(* The loop body with the blocks of process_c and process_d in each other's  *)
(* place                                                                     *)
Downstream_swapped(k) ==
    CASE k = "a" -> "b" [] k = "b" -> "d" [] k = "d" -> "c" [] k = "c" -> "e"
      [] k = "e" -> "a"

(* The amplifier the loop body turns to after k *)
Downstream(k) == Pipeline[IF Position(k) = Len(Pipeline) THEN 1 ELSE Position(k) + 1]

(* The number of times the loop body is followed at most *)
MaxRotations == 6

(* test_example_b1, the same counting to 2, and programs that put out their  *)
(* input once, go on or halt by their phase setting, ask for a third input   *)
(* or write to a negative address                                            *)
ExampleB1 ==
    <<3, 26, 1001, 26, -4, 26, 3, 27, 1002, 27, 2, 27, 1, 27, 26, 27, 4, 27,
      1001, 28, -1, 28, 1005, 28, 6, 99, 0, 0, 5>>

FeedbackPrograms ==
    { ExampleB1,
      [ExampleB1 EXCEPT ![29] = 2],
      <<3, 7, 3, 8, 4, 8, 99, 0, 0>>,
      <<3, 13, 1005, 13, 6, 99, 3, 14, 4, 14, 1105, 1, 6, 0, 0>>,
      <<3, 9, 3, 10, 3, 11, 4, 10, 99, 0, 0, 0>>,
      <<3, 7, 3, -1, 4, 7, 99, 0>>,
      <<99>> }

PhaseSettings ==
    { [k \in Feeders |-> 10 - Position(k)] }
        \cup [Feeders -> {0, 1}]

InitFeedback ==
    /\ Created(FeedbackPrograms)
    /\ acted = NoAmplifiers
    /\ intcode = NoIntcode
    /\ \E phase_settings \in PhaseSettings :
        LET cloned_a == clone(<<program>>, 1)
            cloned_b == clone(cloned_a.heap, 1)
            cloned_c == clone(cloned_b.heap, 1)
            cloned_d == clone(cloned_c.heap, 1)
            cloned_e == clone(cloned_d.heap, 1)
            vec == [k \in Feeders |->
                     CASE k = "a" -> cloned_a.vec [] k = "b" -> cloned_b.vec
                       [] k = "c" -> cloned_c.vec [] k = "d" -> cloned_d.vec
                       [] k = "e" -> cloned_e.vec]
        IN  /\ heap = cloned_e.heap
            /\ processes = [k \in Feeders |-> add_input(from_vec(vec[k]), phase_settings[k])]
            /\ feedback = [state |-> "running", at |-> "a",
                           phase_settings |-> phase_settings,
                           output |-> [k \in Feeders |-> 0],
                           value |-> 0,
                           calls |-> <<>>,
                           queued |-> [k \in Feeders |-> <<phase_settings[k]>>]]

(* One block of the loop body: process_k.add_input(output of the one before),*)
(* process_k.run_to_output() and the match on its result.  on_halt is what   *)
(* the arm of CatchFire does: "returned" (break, return output_e) or         *)
(* "panicked"                                                                *)
Block(k, on_halt) ==
    /\ feedback.state = "running"
    /\ feedback.at = k
    /\ Len(feedback.calls) < Len(Pipeline) * MaxRotations
    /\ \E result \in { run_to_output(add_input(Owned(heap, processes, k),
                                                feedback.output[Upstream(k)]),
                                      AmplifierFuel) } :
        /\ result.t # "Running"
        /\ heap' = [heap EXCEPT ![processes[k].memory] = result.vm.memory]
        /\ processes' = [processes EXCEPT
                            ![k] = [result.vm EXCEPT !.memory = processes[k].memory]]
        /\ feedback' =
            [feedback EXCEPT
                !.queued[k] = Append(@, feedback.output[Upstream(k)]),
                !.calls = Append(@, [who |-> k, t |-> result.t, v |-> result.v]),
                !.output[k] = IF result.t = "Ok" THEN result.v ELSE @,
                !.at = IF result.t = "Ok" THEN Downstream(k) ELSE @,
                !.state = CASE result.t = "Ok" -> "running"
                            [] result.t = "CatchFire" -> on_halt
                            [] OTHER -> "panicked",
                !.value = IF result.t = "CatchFire" /\ on_halt = "returned"
                          THEN feedback.output["e"] ELSE @]
    /\ UNCHANGED <<single, acted, intcode>>

BlockA == Block("a", "returned")

BlockNext == \E k \in Feeders \ {"a"} : Block(k, "panicked")

NextFeedback == BlockA \/ BlockNext

SpecFeedback == InitFeedback /\ [][NextFeedback]_vars


(* The calls of run_to_output so far, and what the last one gave back *)
Rotated == feedback.calls

Reported(k, t) == \E i \in 1..Len(Rotated) : Rotated[i].who = k /\ Rotated[i].t = t

HasHalted(k) == Reported(k, "CatchFire")

Returned_feedback == feedback.state = "returned"

(* C36 as the sentence has it: the feedback driver rotates run_to_output     *)
(* over the amplifiers until every process of the pipeline has halted        *)
C36_UntilEveryHalted ==
    Returned_feedback => \A k \in Feeders : HasHalted(k)

(* C36: the feedback driver calls run_to_output on the amplifiers in the     *)
(* order A, B, C, D, E, A, ... and goes on exactly as long as every call     *)
(* gives an output; it returns at the first CatchFire of amplifier A, when   *)
(* none of B, C, D, E has halted: the last call of each of them, if it has   *)
(* been called, gave an output                                               *)
C36_UntilFirstHalts ==
    /\ \A i \in 1..Len(Rotated) :
        /\ Rotated[i].who = Pipeline[((i - 1) % Len(Pipeline)) + 1]
        /\ i < Len(Rotated) => Rotated[i].t = "Ok"
    /\ feedback.state = "running" =>
        /\ \A i \in 1..Len(Rotated) : Rotated[i].t = "Ok"
        /\ feedback.at = Pipeline[(Len(Rotated) % Len(Pipeline)) + 1]
    /\ Returned_feedback =>
        /\ Rotated # <<>>
        /\ Rotated[Len(Rotated)].who = "a"
        /\ Rotated[Len(Rotated)].t = "CatchFire"
        /\ \A k \in Feeders \ {"a"} : ~HasHalted(k)
    /\ (Rotated # <<>> /\ Rotated[Len(Rotated)].t = "CatchFire"
            /\ Rotated[Len(Rotated)].who = "a") => Returned_feedback

(* test_example_b1 has returned: 26 calls, five rounds of outputs and then   *)
(* the halt of amplifier A alone                                             *)
C36_Witness ==
    /\ program = ExampleB1
    /\ feedback.phase_settings = [k \in Feeders |-> 10 - Position(k)]
    /\ Returned_feedback
    /\ Len(Rotated) = 5 * Len(Pipeline) + 1
    /\ feedback.value = 139629729
    /\ \A k \in Feeders \ {"a"} : ~HasHalted(k) /\ Reported(k, "Ok")

(* Every value but the phase setting that has been queued to k *)
Forwarded(k) == SubSeq(feedback.queued[k], 2, Len(feedback.queued[k]))

(* What amplifier k is to be given: the initial signal 0 for amplifier A,    *)
(* and every output of the amplifier before it                               *)
Due(k) ==
    (IF k = "a" THEN <<0>> ELSE <<>>) \o processes[Upstream(k)].outputs

(* The amplifier whose turn it is has not been handed its value yet *)
Pending(k) == feedback.state = "running" /\ feedback.at = k

Panics(call) ==
    \/ call.t \in Errors \ {"CatchFire"}
    \/ call.t = "CatchFire" /\ call.who # "a"

(* C37: after its phase setting each amplifier is given the outputs of the   *)
(* one before it, each once and in order, amplifier A the signal 0 first;    *)
(* when A reports CatchFire the driver returns the last output of E (the     *)
(* initial 0 of output_e when E has given none); it panics when another      *)
(* amplifier halts or any amplifier reports another error                    *)
C37_Forwarding ==
    /\ \A k \in Feeders :
        /\ feedback.queued[k][1] = feedback.phase_settings[k]
        /\ Forwarded(k) =
            IF Pending(k) THEN SubSeq(Due(k), 1, Len(Due(k)) - 1) ELSE Due(k)
        /\ \E consumed \in 0..Len(feedback.queued[k]) :
            processes[k].inputs =
                SubSeq(feedback.queued[k], consumed + 1, Len(feedback.queued[k]))
    /\ Returned_feedback =>
        feedback.value =
            IF processes["e"].outputs = <<>> THEN 0
            ELSE processes["e"].outputs[Len(processes["e"].outputs)]
    /\ feedback.state = "panicked" <=>
        (Rotated # <<>> /\ Panics(Rotated[Len(Rotated)]))
    /\ (program = ExampleB1 /\ Returned_feedback
            /\ feedback.phase_settings = [k \in Feeders |-> 10 - Position(k)]) =>
        feedback.value = 139629729

(* Two rounds of the program counting to 2: every amplifier has been given   *)
(* two signals, amplifier A the 0 and both outputs of E, the last of which   *)
(* it has not read                                                           *)
C37_Witness ==
    /\ program = [ExampleB1 EXCEPT ![29] = 2]
    /\ Returned_feedback
    /\ Len(processes["e"].outputs) = 2
    /\ feedback.value = processes["e"].outputs[2]
    /\ feedback.queued["a"] =
        <<feedback.phase_settings["a"], 0>> \o processes["e"].outputs
    /\ processes["a"].inputs = <<feedback.value>>
    /\ feedback.queued["c"] = <<feedback.phase_settings["c"]>> \o processes["b"].outputs
    /\ feedback.value # 0

(* Amplifier B halts while A has given an output: the driver panics *)
C37_WitnessPanic ==
    /\ feedback.state = "panicked"
    /\ Rotated[Len(Rotated)] = [who |-> "b", t |-> "CatchFire", v |-> 0]

---------------------------------------------------------------------------
(* day-02: the earlier Intcode, a tape of fixed size and a cursor (usize)    *)

Intcode_from_vec(m) == [memory |-> m, instruction_counter |-> 0]

Intcode_load(q, address) ==
    IF address < 0 THEN Ret(q, Segfault(address))
    ELSE IF address >= Len(q.memory) THEN Ret(q, Segfault(address))
    ELSE Ret(q, Ok(q.memory[address + 1]))

(* store that makes room for the address, as store_with_resize does *)
Intcode_store_growing(q, address, value) ==
    IF address < 0 THEN Ret(q, Segfault(address))
    ELSE LET m == IF address >= Len(q.memory)
                  THEN q.memory \o [i \in 1..(address + 1 - Len(q.memory)) |-> 0]
                  ELSE q.memory
         IN  Ret([q EXCEPT !.memory = [m EXCEPT ![address + 1] = value]], Ok(0))

Intcode_store(q, address, value) ==
    IF address < 0 THEN Ret(q, Segfault(address))
    ELSE IF address >= Len(q.memory) THEN Ret(q, Segfault(address))
    ELSE Ret([q EXCEPT !.memory[address + 1] = value], Ok(0))

Intcode_add(q) ==
    LET op1 == Intcode_load(q, q.instruction_counter + 1)
        op2 == Intcode_load(q, q.instruction_counter + 2)
        op3 == Intcode_load(q, q.instruction_counter + 3)
        val1 == Intcode_load(q, op1.v)
        val2 == Intcode_load(q, op2.v)
        st == Intcode_store(q, op3.v, val1.v + val2.v)
    IN  IF ~IsOk(op1) THEN op1
        ELSE IF ~IsOk(op2) THEN op2
        ELSE IF ~IsOk(op3) THEN op3
        ELSE IF ~IsOk(val1) THEN val1
        ELSE IF ~IsOk(val2) THEN val2
        ELSE IF ~IsOk(st) THEN st
        ELSE Ret([st.vm EXCEPT !.instruction_counter = @ + 4], Ok(0))

(* mul that adds: the body of add under the name of mul *)
Intcode_mul_adding(q) == Intcode_add(q)

Intcode_mul(q) ==
    LET op1 == Intcode_load(q, q.instruction_counter + 1)
        op2 == Intcode_load(q, q.instruction_counter + 2)
        op3 == Intcode_load(q, q.instruction_counter + 3)
        val1 == Intcode_load(q, op1.v)
        val2 == Intcode_load(q, op2.v)
        st == Intcode_store(q, op3.v, val1.v * val2.v)
    IN  IF ~IsOk(op1) THEN op1
        ELSE IF ~IsOk(op2) THEN op2
        ELSE IF ~IsOk(op3) THEN op3
        ELSE IF ~IsOk(val1) THEN val1
        ELSE IF ~IsOk(val2) THEN val2
        ELSE IF ~IsOk(st) THEN st
        ELSE Ret([st.vm EXCEPT !.instruction_counter = @ + 4], Ok(0))

Intcode_step(q) ==
    LET instruction == Intcode_load(q, q.instruction_counter)
    IN  IF ~IsOk(instruction) THEN instruction
        ELSE CASE instruction.v = 1 -> Intcode_add(q)
               [] instruction.v = 2 -> Intcode_mul(q)
               [] instruction.v = 99 -> Ret(q, CatchFire)
               [] OTHER -> Ret(q, UnknownInstruction(instruction.v))

(* The addresses the step of an Add or Mul at cursor c of tape m goes to, in *)
(* the order of the code: the instruction word, the three operand words, the *)
(* cells of the two inputs and the cell of the output                        *)
Accesses(m, c) ==
    IF c < 0 \/ c >= Len(m) \/ m[c + 1] \notin {1, 2} THEN <<c>>
    ELSE IF c + 3 >= Len(m) THEN [k \in 1..(Len(m) - c + 1) |-> c + k - 1]
    ELSE <<c, c + 1, c + 2, c + 3, m[c + 2], m[c + 3], m[c + 4]>>

Inside(m, a) == 0 <= a /\ a < Len(m)

(* The step at p executes a word 1, 2 or 99 and stays inside the tape the    *)
(* program came with                                                         *)
InSubset(p) ==
    /\ Len(p.memory) = Len(program)
    /\ \A i \in 1..Len(Accesses(p.memory, p.instruction_counter)) :
        Inside(program, Accesses(p.memory, p.instruction_counter)[i])
    /\ p.memory[p.instruction_counter + 1] \in {1, 2, 99}

(* test_step, test_cases, tapes that end in or right after an instruction,   *)
(* words that only IntcodeProcess knows, and every Add and Mul in front of a *)
(* Halt with operands from below the tape to beyond it                       *)
Day02Operands == -1..5

Day02Programs ==
    { <<1, 9, 10, 3, 2, 3, 11, 0, 99, 30, 40, 50>>,
      <<1, 0, 0, 0, 99>>, <<2, 3, 0, 3, 99>>, <<2, 4, 4, 5, 99, 0>>,
      <<1, 1, 1, 4, 99, 5, 6, 0, 99>>,
      <<1, 0, 0, 0>>, <<1, 0, 0>>, <<2, 0>>, <<1>>,
      <<1, 0, 0, 0, 2, 0, 0, 0, 1, 0, 0, 0, 2, 0, 4, 0>>,
      <<3, 0, 99>>, <<1101, 1, 1, 0, 99>>, <<0>>, <<-1>> }
        \cup { <<word, op1, op2, op3, 99>> :
                word \in {1, 2}, op1 \in Day02Operands, op2 \in Day02Operands,
                op3 \in Day02Operands }

InitLockStep ==
    /\ Created(Day02Programs)
    /\ heap = <<>>
    /\ processes = <<>>
    /\ acted = NoAmplifiers
    /\ feedback = NoFeedback
    /\ intcode = [vm |-> Intcode_from_vec(program), t |-> "from_vec", v |-> 0,
                  pre |-> Intcode_from_vec(program), subset |-> TRUE]

(* Intcode::step and IntcodeProcess::step, one call of each *)
LockStep ==
    /\ steps < MaxSteps
    /\ \E result \in {step(self)}, earlier \in {Intcode_step(intcode.vm)} :
        /\ Becomes(result.vm)
        /\ last' = Call("step", 0, 0, result, <<Ret(self, result)>>)
        /\ drivers' = drivers \cup {"step"}
                        \cup (IF result.t \in Errors THEN {"failed"} ELSE {})
        /\ steps' = steps + 1
        /\ intcode' = [vm |-> earlier.vm, t |-> earlier.t, v |-> earlier.v,
                       pre |-> intcode.vm,
                       subset |-> intcode.subset /\ InSubset(self)]
    /\ UNCHANGED <<program, fed, taken, returned, origin, stores, retry, halted,
                   amplifiers>>

NextLockStep == LockStep

SpecLockStep == InitLockStep /\ [][NextLockStep]_vars

(* Result<(), IntcodeError> of the earlier step beside                       *)
(* Result<Option<isize>, IntcodeError> of the later one                      *)
SameResult ==
    \/ intcode.t = "Ok" /\ last.t = "OkNone"
    \/ intcode.t \in Errors /\ last.t = intcode.t /\ last.v = intcode.v

(* C38: as long as every step has executed a word 1, 2 or 99 with every      *)
(* address it goes to inside the initial tape, Intcode::step of day-02 and   *)
(* IntcodeProcess::step give the same result, cursor and memory              *)
C38_LockStep ==
    (intcode.subset /\ last.op = "step") =>
        /\ SameResult
        /\ intcode.vm.instruction_counter = instruction_counter
        /\ intcode.vm.memory = memory

(* test_step in both: 70 and 3500 stored, then CatchFire at cursor 8 *)
C38_Witness ==
    /\ program = <<1, 9, 10, 3, 2, 3, 11, 0, 99, 30, 40, 50>>
    /\ intcode.subset
    /\ steps = 3
    /\ intcode.t = "CatchFire" /\ last.t = "CatchFire"
    /\ memory = <<3500, 9, 10, 70, 2, 3, 11, 0, 99, 30, 40, 50>>
    /\ intcode.vm = [memory |-> memory, instruction_counter |-> 8]

(* The first address of the step at q that lies outside the tape, if any *)
Outside(q) ==
    LET accesses == Accesses(q.memory, q.instruction_counter)
    IN  { accesses[i] : i \in { j \in 1..Len(accesses) :
            /\ ~Inside(q.memory, accesses[j])
            /\ \A h \in 1..(j - 1) : Inside(q.memory, accesses[h]) } }

(* C39: a step of day-02's Intcode that goes to an address outside the tape  *)
(* (the cursor at the end, an operand word past the end, an operand outside  *)
(* 0..len-1) returns Segfault of that address; no step changes the length of *)
(* the tape, and a failing step leaves memory and cursor as they were;       *)
(* load(5) and store(5, 10) on five cells give Segfault(5)                   *)
C39_FixedSize ==
    /\ intcode.t # "from_vec" =>
        /\ \A address \in Outside(intcode.pre) :
            intcode.t = "Segfault" /\ intcode.v = address
        /\ intcode.t = "Segfault" => Outside(intcode.pre) = {intcode.v}
        /\ intcode.t \in Errors => intcode.vm = intcode.pre
    /\ Len(intcode.vm.memory) = Len(program)
    /\ LET five == Intcode_from_vec(<<0, 2, 4, 6, 8>>)
       IN  /\ Intcode_load(five, 4) = Ret(five, Ok(8))
           /\ Intcode_load(five, 5) = Ret(five, Segfault(5))
           /\ Intcode_load(five, -1) = Ret(five, Segfault(-1))
           /\ Intcode_store(five, 4, 8).vm.memory = <<0, 2, 4, 6, 8>>
           /\ Intcode_store(five, 5, 10) = Ret(five, Segfault(5))
           /\ Intcode_store(five, -1, -2) = Ret(five, Segfault(-1))

(* [1,0,0,0]: the Add stores 2, the next fetch is at the end of the tape and *)
(* fails with Segfault(4), where IntcodeProcess has grown its tape           *)
C39_Witness ==
    /\ program = <<1, 0, 0, 0>>
    /\ intcode.pre = [memory |-> <<2, 0, 0, 0>>, instruction_counter |-> 4]
    /\ intcode.vm = intcode.pre
    /\ intcode.t = "Segfault" /\ intcode.v = 4
    /\ Len(memory) = 5
    /\ ~intcode.subset

(* An operand past the tape in the output position: nothing is stored *)
C39_WitnessOperand ==
    /\ program = <<1, 0, 0, 5, 99>>
    /\ intcode.vm = Intcode_from_vec(program)
    /\ intcode.t = "Segfault" /\ intcode.v = 5
    /\ memory = <<1, 0, 0, 5, 99, 2>>

---------------------------------------------------------------------------
(* Instruction::encode *)

(* encode_input_mode that writes the digit one place lower *)
encode_input_mode_lower(mode, position) ==
    (pow10(position) \div 10)
        * (CASE mode = "Position" -> 0
             [] mode = "Immediate" -> 1
             [] mode = "Relative" -> 2)

encode_input_mode(mode, position) ==
    pow10(position)
        * (CASE mode = "Position" -> 0
             [] mode = "Immediate" -> 1
             [] mode = "Relative" -> 2)

encode_output_mode(mode, position) ==
    pow10(position)
        * (CASE mode = "Position" -> 0
             [] mode = "Relative" -> 2)

encode(i) ==
    CASE i.op = "Add" ->
            1 + encode_input_mode(i.in0, 2) + encode_input_mode(i.in1, 3)
              + encode_output_mode(i.out, 4)
      [] i.op = "Mul" ->
            2 + encode_input_mode(i.in0, 2) + encode_input_mode(i.in1, 3)
              + encode_output_mode(i.out, 4)
      [] i.op = "Input" -> 3 + encode_output_mode(i.out, 2)
      [] i.op = "Output" -> 4 + encode_input_mode(i.in0, 2)
      [] i.op = "JumpIfTrue" ->
            5 + encode_input_mode(i.in0, 2) + encode_input_mode(i.in1, 3)
      [] i.op = "JumpIfFalse" ->
            6 + encode_input_mode(i.in0, 2) + encode_input_mode(i.in1, 3)
      [] i.op = "LessThan" ->
            7 + encode_input_mode(i.in0, 2) + encode_input_mode(i.in1, 3)
              + encode_output_mode(i.out, 4)
      [] i.op = "Equals" ->
            8 + encode_input_mode(i.in0, 2) + encode_input_mode(i.in1, 3)
              + encode_output_mode(i.out, 4)
      [] i.op = "RelativeMode" -> 9 + encode_input_mode(i.in0, 2)
      [] i.op = "Halt" -> 99

(* InputParameter, OutputParameter and every value of Instruction *)
InputParameter == {"Position", "Immediate", "Relative"}
OutputParameter == {"Position", "Relative"}

Variant(op, in0s, in1s, outs) ==
    { [ok |-> TRUE, op |-> op, in0 |-> a, in1 |-> b, out |-> c] :
        a \in in0s, b \in in1s, c \in outs }

Instructions ==
    UNION { Variant(op, InputParameter, InputParameter, OutputParameter) :
                op \in {"Add", "Mul", "LessThan", "Equals"} }
        \cup Variant("Input", {NoMode}, {NoMode}, OutputParameter)
        \cup UNION { Variant(op, InputParameter, {NoMode}, {NoMode}) :
                        op \in {"Output", "RelativeMode"} }
        \cup UNION { Variant(op, InputParameter, InputParameter, {NoMode}) :
                        op \in {"JumpIfTrue", "JumpIfFalse"} }
        \cup Variant("Halt", {NoMode}, {NoMode}, {NoMode})

(* Programs built as test_run_to_output builds its own: the encoded          *)
(* instruction, its operands and a Halt                                      *)
EncodedPrograms == { <<encode(i), 5, 6, 7, 99, 0, 0, 0>> : i \in Instructions }

InitEncoded == InitOf(EncodedPrograms)

(* The step that executes the encoded word, and the inputs queued before it *)
StepEncoded == drivers = {} /\ Step

AddInputEncoded == drivers = {} /\ AddInput

NextEncoded == StepEncoded \/ AddInputEncoded

SpecEncoded == InitEncoded /\ [][NextEncoded]_vars

OpNumber(op) ==
    CASE op = "Add" -> 1 [] op = "Mul" -> 2 [] op = "Input" -> 3 [] op = "Output" -> 4
      [] op = "JumpIfTrue" -> 5 [] op = "JumpIfFalse" -> 6 [] op = "LessThan" -> 7
      [] op = "Equals" -> 8 [] op = "RelativeMode" -> 9 [] op = "Halt" -> 99

ModeDigit(mode) ==
    CASE mode = "Position" -> 0 [] mode = "Immediate" -> 1 [] mode = "Relative" -> 2

(* C40: decode(encode(i)) = i for every Instruction i; encode(i) has the     *)
(* opcode in its two low decimal digits, the mode of parameter k in digit    *)
(* k + 1 and zeros elsewhere; Output(Immediate) encodes as 104; the step     *)
(* on an encoded word executes that instruction                              *)
C40_RoundTrip ==
    /\ \A i \in Instructions :
        LET w == encode(i)
        IN  /\ decode(w) = i
            /\ 0 < w /\ w < 100000
            /\ w % 100 = OpNumber(i.op)
            /\ \A k \in 1..3 :
                Digit(w, k + 1) =
                    IF \E j \in 1..Len(Params(i)) : Params(i)[j].k = k
                    THEN ModeDigit(Params(i)[CHOOSE j \in 1..Len(Params(i)) :
                                                Params(i)[j].k = k].mode)
                    ELSE 0
    /\ encode([ok |-> TRUE, op |-> "Output", in0 |-> "Immediate",
               in1 |-> NoMode, out |-> NoMode]) = 104
    /\ \E i \in Instructions :
        /\ program[1] = encode(i)
        /\ (last.op = "step" /\ last.pre.instruction_counter = 0) =>
            /\ Dec(1) = i
            /\ last.t # "UnknownInstruction"

(* LessThan(Relative, Immediate, Relative) is the word 21207 and has been    *)
(* executed: 0 < 6 stores 1 at address 7                                     *)
C40_Witness ==
    /\ program[1] = 21207
    /\ program[1] = encode([ok |-> TRUE, op |-> "LessThan", in0 |-> "Relative",
                            in1 |-> "Immediate", out |-> "Relative"])
    /\ last.op = "step" /\ last.t = "OkNone"
    /\ last.pre.instruction_counter = 0
    /\ Dec(1).op = "LessThan"
    /\ memory[8] = 1
    /\ instruction_counter = 4

=============================================================================
